---------------------------- MODULE Spec2Model ----------------------------
(***************************************************************************)
(* A model of the WhatsApp ingestion service (src/index.ts): the ingestion *)
(* pipeline (saveMessage), the continuity watermark, the reconnection      *)
(* state machine, the call (session) correlator, the contact cache and     *)
(* the phased prefill/backfill scheduler.                                  *)
(*                                                                         *)
(* Each component has its own specification over the shared variables;     *)
(* an action changes another component's variables only where the code     *)
(* calls into it (the ready handler starts prefill, saveCall writes the    *)
(* status).                                                                *)
(***************************************************************************)
EXTENDS Integers, Sequences, FiniteSets

(***************************************************************************)
(* Bounds of the model                                                     *)
(***************************************************************************)
MaxSaves == 2

MaxClients == 3

MaxRetryCount == 7

MaxCallbacks == 2

MaxReadyCooldown == 1

MaxCallSaving == 1

MaxCallRecords == 1

MaxCallTime == 1

MaxLookups == 2

MaxCacheTicks == 4

MaxPrefillAttempts == 21

\* Attempts of one run of failures in the specification of the backoff.
MaxPrefillChain == 102

MaxPrefillTimers == 1

MaxBackfillTimers == 1

MaxBackfillTriggers == 2

\* Failed backfill attempts whose delays are recorded.
MaxBackfillFailures == 3

\* Steps of the wall clock followed by the /health model.
MaxHealthTicks == 3

(***************************************************************************)
(* Values                                                                  *)
(***************************************************************************)
NULL == "null"

NoRow == -1

Max(a, b) == IF a >= b THEN a ELSE b

Min(a, b) == IF a <= b THEN a ELSE b

RECURSIVE Pow2(_)
Pow2(n) == IF n <= 0 THEN 1 ELSE 2 * Pow2(n - 1)

VARIABLES
  \* ---- ingestion pipeline and continuity watermark
  started,                 \* start() has run initializeContinuity
  continuityDb,            \* persisted continuity row (NoRow when absent)
  lastProcessedTimestamp,  \* in-memory watermark
  rawLog,                  \* out/raw.jsonl: the ids of the appended records
  chatsT,                  \* table chats
  contactsT,               \* table contacts
  messagesT,               \* table messages
  reactionsT,              \* table reactions (autoincrement id)
  lastMessageAt,           \* status.lastMessageAt
  lastDbWriteAt,           \* status.lastDbWriteAt
  errLog,                  \* console.error entries of saveMessage
  now,                     \* Date.now() as seen by the pipeline
  lastSave,                \* observation of the last saveMessage call
  insertCount,             \* per id, the message inserts the engine ran
  \* ---- lifecycle: connection state, reconnection, heartbeat
  state,                   \* status.state
  retryCount,              \* status.retryCount
  everConnected,
  everAuthenticated,
  connectionReady,
  indexesReady,
  liveListening,
  inGrace,                 \* Date.now() - lastAuthTime < 30000
  graceLeft,               \* ms left of that window
  hbLeft,                  \* ms until the heartbeat interval fires
  lastProbe,               \* what getState() answered to the last heartbeat
  uncaughtFlip,            \* flips at every uncaught exception or rejection
  shuttingDown,
  proc,                    \* "running", "exiting" (shutdown awaits destroy), "exited"
  authDir,                 \* .wwebjs_auth holds a session
  client,                  \* the global client: an index into clients
  clients,                 \* every client made by createClient
  boot,                    \* where start() is
  timerPending,            \* reconnectTimer is armed and has not fired
  timerDelay,              \* the delay it was armed with (ms)
  timerLeft,               \* ms until it fires
  delays,                  \* history: the delays computed since the last
                           \* 'ready' or credential reset
  cbPending,               \* reconnect callbacks awaiting safeDestroy()
  readyCooldown,           \* ready handlers in their 5 s cooldown
  \* ---- call (session) correlator
  activeCalls,             \* the activeCalls map: call id -> CallState or NoCall
  callsRaw,                \* out/calls.jsonl
  callsT,                  \* table calls
  callSaving,              \* saveCall invocations awaiting the insert
  callLog,                 \* log and console.error entries of the call handlers
  callNow,                 \* Date.now() as seen by the call handlers
  \* ---- contact cache
  contactCache,            \* the contactCache map: id -> entry or NoEntry
  cacheNow,                \* Date.now() as seen by resolveContactName
  cacheTicks,              \* how many times the clock has advanced
  lookups,                 \* resolveContactName calls awaiting getContactById
  lastLookup,              \* history: the latest call of resolveContactName
  lastResolution,          \* history: the latest getContactById that settled
  entryLookupAt,           \* history: id -> when the call that filled the
                           \* entry was made
  \* ---- catch-up scheduler (prefill, backfill)
  prefillInProgress,       \* single-flight flag of schedulePrefillWithRetry
  prefillAttempts,         \* attempts counter
  prefillComplete,
  backfillComplete,
  prefillTimers,           \* pending setTimeout(schedulePrefillWithRetry)
  prefillRunning,          \* executions of schedulePrefill awaited
  backfillRunning,         \* executions of scheduleBackfill under way
  backfillTimers,          \* pending setTimeout(scheduleBackfill)
  prefillDelays,           \* history: the delays computed by the failures
                           \* since the attempts counter last left zero
  backfillTriggers,        \* history: calls of scheduleBackfill by a prefill
                           \* success
  backfillDelays,          \* history: delays set by failed backfill attempts
  \* ---- live capture (message_create)
  deferred,                \* messages waiting for the 1 s timer of the
                           \* deferral, each with the state it arrived in
  droppedLive,             \* history: deferred messages that were dropped
  \* ---- HTTP /health
  wallClock,               \* Date.now() in ms
  healthResp,              \* the body of the last /health response
  healthTicks              \* steps the wall clock has made

ingestVars == <<started, continuityDb, lastProcessedTimestamp, rawLog, chatsT,
                contactsT, messagesT, reactionsT, lastMessageAt, lastDbWriteAt,
                errLog, now, lastSave, insertCount>>

lifeVars == <<state, retryCount, everConnected, everAuthenticated,
              connectionReady, indexesReady, liveListening, inGrace, graceLeft,
              hbLeft, lastProbe, uncaughtFlip, shuttingDown, proc, authDir, client, clients,
              boot,
              timerPending, timerDelay, timerLeft, delays, cbPending,
              readyCooldown>>

callVars == <<activeCalls, callsRaw, callsT, callSaving, callLog, callNow>>

cacheVars == <<contactCache, cacheNow, cacheTicks, lookups, lastLookup,
               lastResolution, entryLookupAt>>

prefillVars == <<prefillInProgress, prefillAttempts, prefillComplete,
                 backfillComplete, prefillTimers, prefillRunning,
                 backfillRunning, backfillTimers, prefillDelays,
                 backfillTriggers, backfillDelays>>

liveVars == <<deferred, droppedLive>>

healthVars == <<wallClock, healthResp, healthTicks>>

vars == <<ingestVars, lifeVars, callVars, cacheVars, prefillVars, liveVars,
          healthVars>>

\* What the ingestion pipeline's actions leave alone.
notIngest == <<lifeVars, callVars, cacheVars, prefillVars, liveVars,
               healthVars>>

\* What the lifecycle's actions leave alone.
notLife == <<ingestVars, callVars, cacheVars, prefillVars, liveVars,
             healthVars>>

\* What resolveContactName leaves alone.
notCache == <<ingestVars, lifeVars, callVars, prefillVars, liveVars,
              healthVars>>

\* What the catch-up scheduler's own steps leave alone.
notPrefill == <<ingestVars, lifeVars, callVars, cacheVars, liveVars,
                healthVars>>

\* What the message_create handler leaves alone besides the pipeline.
notLive == <<lifeVars, callVars, cacheVars, prefillVars, healthVars>>

\* What the call handlers leave alone (saveCall writes status.lastDbWriteAt).
notCalls == <<started, continuityDb, lastProcessedTimestamp, rawLog, chatsT,
              contactsT, messagesT, reactionsT, lastMessageAt, errLog, now,
              lastSave, insertCount, lifeVars, cacheVars, prefillVars,
              liveVars, healthVars>>

(***************************************************************************)
(* Inputs of the ingestion pipeline                                        *)
(***************************************************************************)
MsgIds == {"m1", "m2", "m3"}

\* What the source holds for each message id: a replayed message comes
\* with the same chat, sender and timestamp (seconds) each time.
MsgChat(id) == IF id = "m3" THEN "c2" ELSE "c1"

MsgFromMe(id) == id = "m2"

MsgTimestamp(id) == IF id = "m1" THEN 2 ELSE IF id = "m2" THEN 1 ELSE 0

\* Chat objects handed to saveMessage: chat c1 under two names (renamed
\* between two fetches) and the system chat, which saveMessage does not store.
ChatInputs ==
  { [id |-> "c1", name |-> "Alice"],
    [id |-> "c1", name |-> "Alice B"],
    [id |-> "c2", name |-> "WhatsApp"] }

\* Results of resolveContactName for a sender other than 'me'.
NameResults ==
  { [savedName |-> "Ann", pushname |-> NULL],
    [savedName |-> NULL,  pushname |-> NULL] }

\* m.reactions: only m1 carries reactions, and not on every fetch.
ReactionLists(id) ==
  IF id = "m1" THEN { <<>>, <<[text |-> "+1", id |-> "u1"]>> } ELSE { <<>> }

MessageInputs ==
  UNION { [ id : {i}, fromMe : {MsgFromMe(i)}, from : {"u1"},
            timestamp : {MsgTimestamp(i)}, reactions : ReactionLists(i) ]
          : i \in MsgIds }

\* Where a call of saveMessage meets a storage fault: nowhere, at the raw
\* append, or at one statement of the structured-storage stage.
FaultPoints == {"none", "raw", "chat", "contact", "message", "reaction"}

(***************************************************************************)
(* initializeContinuity                                                    *)
(***************************************************************************)
\* The watermark loaded at startup: the stored row's value (|| 0), 0 when
\* there is no row, 0 when the read throws.
LoadedWatermark(row, readFails) ==
  IF readFails THEN 0
  ELSE IF row = NoRow THEN 0
  ELSE row

\* The row after initializeContinuity: created at 0 when absent.
ContinuityRowAfterInit(row, readFails) ==
  IF readFails THEN row
  ELSE IF row = NoRow THEN 0
  ELSE row

StartIngest(readFails) ==
  /\ ~started
  /\ started' = TRUE
  /\ lastProcessedTimestamp' = LoadedWatermark(continuityDb, readFails)
  /\ continuityDb' = ContinuityRowAfterInit(continuityDb, readFails)
  /\ UNCHANGED <<rawLog, chatsT, contactsT, messagesT, reactionsT,
                 lastMessageAt, lastDbWriteAt, errLog, now, lastSave,
                 insertCount>>
  /\ UNCHANGED notIngest

\* The process ends and is started again by its supervisor: what is kept in
\* memory is back at its module-level initial value, the database and the
\* files stay.
Restart ==
  /\ started
  /\ started' = FALSE
  /\ lastProcessedTimestamp' = 0
  /\ lastMessageAt' = 0
  /\ lastDbWriteAt' = 0
  /\ UNCHANGED <<continuityDb, rawLog, chatsT, contactsT, messagesT,
                 reactionsT, errLog, now, lastSave, insertCount>>
  /\ UNCHANGED notIngest

(***************************************************************************)
(* saveMessage                                                             *)
(***************************************************************************)
SenderId(m) == IF m.fromMe THEN "me" ELSE m.from

DisplayName(names, senderId) ==
  IF names.savedName # NULL THEN names.savedName
  ELSE IF names.pushname # NULL THEN names.pushname
  ELSE senderId

MessageRecord(m, chat) ==
  [ id |-> m.id, chatId |-> chat.id, senderId |-> SenderId(m),
    ts |-> m.timestamp * 1000 ]

PkConflict(tbl, row) == \E r \in tbl : r.id = row.id

\* One insert statement as the engine runs it: the table it leaves and the
\* error it throws ("none", "io" for an engine fault, "unique" for a
\* primary-key conflict that nothing absorbs).
Faulted(tbl) == [tbl |-> tbl, err |-> "io"]

Skipped(tbl) == [tbl |-> tbl, err |-> "none"]

\* db.insert(schema.chats).values(..).onConflictDoNothing().execute()
InsertChat(tbl, row) ==
  [ tbl |-> IF PkConflict(tbl, row) THEN tbl ELSE tbl \cup {row},
    err |-> "none" ]

\* db.insert(schema.contacts).values(..).onConflictDoNothing().execute()
InsertContact(tbl, row) ==
  [ tbl |-> IF PkConflict(tbl, row) THEN tbl ELSE tbl \cup {row},
    err |-> "none" ]

\* The message insert without its conflict clause.
InsertMessagePlain(tbl, row) ==
  [ tbl |-> IF PkConflict(tbl, row) THEN tbl ELSE tbl \cup {row},
    err |-> IF PkConflict(tbl, row) THEN "unique" ELSE "none" ]

\* db.insert(schema.messages).values(record).onConflictDoNothing().execute()
InsertMessage(tbl, row) ==
  [ tbl |-> IF PkConflict(tbl, row) THEN tbl ELSE tbl \cup {row},
    err |-> "none" ]

\* db/ops.ts insertMessage: a plain insert whose UNIQUE error on messages.id
\* is swallowed; any other error is rethrown.
OpsInsertMessage(tbl, row, engineFault) ==
  LET thrown == IF engineFault THEN "io"
                ELSE IF PkConflict(tbl, row) THEN "unique" ELSE "none"
  IN  [ tbl |-> IF thrown = "none" THEN tbl \cup {row} ELSE tbl,
        err |-> IF thrown = "unique" THEN "none" ELSE thrown ]

\* db.insert(schema.reactions).values(..).execute(): a new autoincrement id.
NextReactionId(tbl) ==
  IF tbl = {} THEN 1
  ELSE 1 + (CHOOSE i \in {r.id : r \in tbl} : \A r \in tbl : r.id <= i)

RECURSIVE InsertReactions(_, _, _)
InsertReactions(tbl, messageId, rs) ==
  IF rs = <<>> THEN tbl
  ELSE InsertReactions(
         tbl \cup { [ id |-> NextReactionId(tbl), messageId |-> messageId,
                      emoji |-> rs[1].text, senderId |-> rs[1].id ] },
         messageId, Tail(rs))

\* The watermark after a message whose timestamp is below the current one.
WatermarkAssign(cur, t) == t

\* lastProcessedTimestamp = Math.max(lastProcessedTimestamp, m.timestamp)
WatermarkAfter(cur, t) == Max(cur, t)

\* The raw append's catch block returns: the structured-storage stage runs
\* only after a successful append.
RunsDbStageAlways(rawFails) == TRUE

RunsDbStage(rawFails) == ~rawFails

\* The structured-storage catch block that rethrows.
DbCatchRethrow(err) == IF err = "none" THEN "returned" ELSE "raised"

\* The structured-storage catch block logs and does not rethrow.
DbCatch(err) == "returned"

\* The four tables of structured storage as one value.
Tables ==
  [ chats |-> chatsT, contacts |-> contactsT, messages |-> messagesT,
    reactions |-> reactionsT ]

\* The structured-storage stage (the try block) run on the tables t, as the
\* state it leaves: the statements run in order and the first one that
\* throws ends the block.
DbStageOn(t, m, chat, names, failAt) ==
  LET senderId == SenderId(m)
      doChat == chat.name # "WhatsApp"
      doContact == senderId # "me"
      s1 == IF ~doChat THEN Skipped(t.chats)
            ELSE IF failAt = "chat" THEN Faulted(t.chats)
            ELSE InsertChat(t.chats, [id |-> chat.id, name |-> chat.name])
      ok1 == s1.err = "none"
      s2 == IF ~ok1 THEN [tbl |-> t.contacts, err |-> s1.err]
            ELSE IF ~doContact THEN Skipped(t.contacts)
            ELSE IF failAt = "contact" THEN Faulted(t.contacts)
            ELSE InsertContact(t.contacts,
                   [ id |-> senderId, savedName |-> names.savedName,
                     pushname |-> names.pushname,
                     displayName |-> DisplayName(names, senderId) ])
      ok2 == s2.err = "none"
      s3 == IF ~ok2 THEN [tbl |-> t.messages, err |-> s2.err]
            ELSE IF failAt = "message" THEN Faulted(t.messages)
            ELSE InsertMessage(t.messages, MessageRecord(m, chat))
      ok3 == s3.err = "none"
      s4 == IF ~ok3 THEN [tbl |-> t.reactions, err |-> s3.err]
            ELSE IF m.reactions = <<>> THEN Skipped(t.reactions)
            ELSE IF failAt = "reaction" THEN Faulted(t.reactions)
            ELSE [ tbl |-> InsertReactions(t.reactions, m.id, m.reactions),
                   err |-> "none" ]
  IN  [ chats |-> s1.tbl, contacts |-> s2.tbl, messages |-> s3.tbl,
        reactions |-> s4.tbl, err |-> s4.err,
        insertRan |-> ok2 /\ failAt # "message" ]

\* The stage run on the tables as they are.
DbStage(m, chat, names, failAt) == DbStageOn(Tables, m, chat, names, failAt)

\* resolveContactName(senderId) as saveMessage sees it: no names for "me",
\* else what the lookup returned.
SaveNames(m, names0) ==
  IF SenderId(m) = "me" THEN [savedName |-> NULL, pushname |-> NULL]
  ELSE names0

Stored(id) == \E r \in messagesT : r.id = id

\* saveMessage called when Date.now() is `stamp`.
SaveMessageAt(m, chat, names0, failAt, stamp) ==
  LET rawFails == failAt = "raw"
      names == SaveNames(m, names0)
      runDb == RunsDbStage(rawFails)
      db == DbStage(m, chat, names, failAt)
  IN
  /\ started
  /\ now < MaxSaves
  /\ now' = now + 1
  /\ rawLog' = IF rawFails THEN rawLog
               ELSE Append(rawLog, MessageRecord(m, chat))
  /\ chatsT' = IF runDb THEN db.chats ELSE chatsT
  /\ contactsT' = IF runDb THEN db.contacts ELSE contactsT
  /\ messagesT' = IF runDb THEN db.messages ELSE messagesT
  /\ reactionsT' = IF runDb THEN db.reactions ELSE reactionsT
  /\ insertCount' = IF runDb /\ db.insertRan
                      THEN [insertCount EXCEPT ![m.id] = @ + 1]
                      ELSE insertCount
  /\ IF runDb /\ db.err = "none"
       THEN /\ lastMessageAt' = stamp
            /\ lastDbWriteAt' = stamp
            /\ lastProcessedTimestamp' =
                 WatermarkAfter(lastProcessedTimestamp, m.timestamp)
       ELSE UNCHANGED <<lastMessageAt, lastDbWriteAt, lastProcessedTimestamp>>
  /\ errLog' = errLog
       \cup (IF rawFails
               THEN { [op |-> "rawAppend", messageId |-> m.id, cause |-> "io"] }
               ELSE {})
       \cup (IF runDb /\ db.err # "none"
               THEN { [ op |-> "saveMessage", messageId |-> m.id,
                        cause |-> db.err ] }
               ELSE {})
  /\ lastSave' =
       [ id |-> m.id,
         at |-> now',
         record |-> MessageRecord(m, chat),
         raw |-> IF rawFails THEN "failed" ELSE "ok",
         db |-> IF ~runDb THEN "skipped"
                ELSE IF db.err = "none" THEN "ok" ELSE "failed",
         storedBefore |-> Stored(m.id),
         insertRan |-> runDb /\ db.insertRan,
         outcome |-> IF runDb THEN DbCatch(db.err) ELSE "returned" ]
  /\ UNCHANGED <<started, continuityDb>>

\* saveMessage on the pipeline's own clock, which advances with every call.
SaveMessageEffect(m, chat, names0, failAt) ==
  SaveMessageAt(m, chat, names0, failAt, now + 1)

\* A call of saveMessage by a caller that changes nothing else.
SaveMessage(m, chat, names0, failAt) ==
  /\ SaveMessageEffect(m, chat, names0, failAt)
  /\ UNCHANGED notIngest

\* A direct call of db/ops.ts insertMessage with a message row.
OpsInsert(m, chat, engineFault) ==
  LET res == OpsInsertMessage(messagesT, MessageRecord(m, chat), engineFault)
  IN
  /\ started
  /\ now < MaxSaves
  /\ now' = now + 1
  /\ messagesT' = res.tbl
  /\ insertCount' = IF engineFault THEN insertCount
                    ELSE [insertCount EXCEPT ![m.id] = @ + 1]
  /\ errLog' = errLog
       \cup (IF res.err # "none"
               THEN { [ op |-> "insertMessage", messageId |-> m.id,
                        cause |-> res.err ] }
               ELSE {})
  /\ UNCHANGED <<started, continuityDb, lastProcessedTimestamp, rawLog, chatsT,
                 contactsT, reactionsT, lastMessageAt, lastDbWriteAt, lastSave>>
  /\ UNCHANGED notIngest

(***************************************************************************)
(* Catch-up scheduler: schedulePrefillWithRetry, scheduleBackfill          *)
(***************************************************************************)
\* The delay of the timers scheduleBackfill sets for its next attempt.
BACKFILL_RETRY_MS == 10000

\* The delay with the remainder of the attempts as exponent.
PrefillDelayByRemainder(attempts) == Min(5000 * Pow2(attempts % 5), 60000)

\* Math.min(baseDelay * Math.pow(2, Math.floor(prefillAttempts / 5)), maxDelay)
\* From the exponent 4 on the product is above maxDelay: larger exponents
\* are computed as 4, which keeps the product a 32-bit integer.
PrefillDelay(attempts) == Min(5000 * Pow2(Min(attempts \div 5, 4)), 60000)

\* A counter that is never reset.
AttemptsKept(attempts) == attempts

\* Age reset: if (prefillAttempts > 100) prefillAttempts = 0
AttemptsAfterFailure(attempts) == IF attempts > 100 THEN 0 ELSE attempts

\* A scheduler without the single-flight test.
PrefillBusyNever == FALSE

\* if (prefillInProgress) return: the single-flight test.
PrefillBusy == prefillInProgress

\* schedulePrefillWithRetry() up to its first return or await, timers being
\* the prefill timers pending when it is entered.  clientOk is the outcome
\* of the test of client.info.
PrefillEnterUpTo(bound, clientOk, timers) ==
  IF PrefillBusy
    THEN /\ prefillTimers' = timers
         /\ UNCHANGED <<prefillInProgress, prefillAttempts, prefillRunning,
                        prefillDelays>>
    ELSE /\ prefillAttempts < bound
         /\ prefillInProgress' = TRUE
         /\ prefillAttempts' = prefillAttempts + 1
         /\ prefillDelays' = IF prefillAttempts = 0 THEN <<>> ELSE prefillDelays
         /\ IF clientOk
              THEN /\ prefillRunning' = prefillRunning + 1
                   /\ prefillTimers' = timers
              ELSE /\ timers < MaxPrefillTimers
                   /\ prefillTimers' = timers + 1
                   /\ UNCHANGED prefillRunning

PrefillEnter(clientOk, timers) ==
  PrefillEnterUpTo(MaxPrefillAttempts, clientOk, timers)

\* The timer set by scheduleNextPrefill fires.
PrefillTimerFireUpTo(bound, clientOk) ==
  /\ prefillTimers > 0
  /\ PrefillEnterUpTo(bound, clientOk, prefillTimers - 1)
  /\ UNCHANGED <<prefillComplete, backfillComplete, backfillRunning,
                 backfillTimers, backfillTriggers,
                 backfillDelays>>
  /\ UNCHANGED notPrefill

PrefillTimerFire(clientOk) ==
  PrefillTimerFireUpTo(MaxPrefillAttempts, clientOk)

\* schedulePrefill() saves the message it fetched from a chat.
PrefillSave(m, chat, names, failAt) ==
  /\ prefillRunning > 0
  /\ SaveMessage(m, chat, names, failAt)

\* schedulePrefill() returned: the tracking is reset and scheduleBackfill()
\* is called, which runs up to its first await.
PrefillSucceed ==
  /\ prefillRunning > 0
  /\ backfillTriggers < MaxBackfillTriggers
  /\ prefillRunning' = prefillRunning - 1
  /\ prefillAttempts' = 0
  /\ prefillInProgress' = FALSE
  /\ prefillComplete' = TRUE
  /\ backfillRunning' = backfillRunning + 1
  /\ backfillTriggers' = backfillTriggers + 1
  /\ UNCHANGED <<backfillComplete, prefillTimers, backfillTimers,
                 prefillDelays, backfillDelays>>
  /\ UNCHANGED notPrefill

\* schedulePrefill() threw: the flag is released, the next attempt is
\* scheduled after the computed delay, the counter is reset past 100.
PrefillFail ==
  /\ prefillRunning > 0
  /\ prefillTimers < MaxPrefillTimers
  /\ prefillRunning' = prefillRunning - 1
  /\ prefillInProgress' = FALSE
  /\ prefillTimers' = prefillTimers + 1
  /\ prefillDelays' = Append(prefillDelays, PrefillDelay(prefillAttempts))
  /\ prefillAttempts' = AttemptsAfterFailure(prefillAttempts)
  /\ UNCHANGED <<prefillComplete, backfillComplete, backfillRunning,
                 backfillTimers, backfillTriggers,
                 backfillDelays>>
  /\ UNCHANGED notPrefill

\* scheduleBackfill() saves a message it fetched from a chat.
BackfillSave(m, chat, names, failAt) ==
  /\ backfillRunning > 0
  /\ SaveMessage(m, chat, names, failAt)

BackfillSucceed ==
  /\ backfillRunning > 0
  /\ backfillRunning' = backfillRunning - 1
  /\ backfillComplete' = TRUE
  /\ UNCHANGED <<prefillInProgress, prefillAttempts, prefillComplete,
                 prefillTimers, prefillRunning, backfillTimers, prefillDelays,
                 backfillTriggers,
                 backfillDelays>>
  /\ UNCHANGED notPrefill

\* A retry delay that doubles with the number of earlier failures.
BackfillDelayBackoff(failures) == Min(5000 * Pow2(failures), 60000)

\* setTimeout(scheduleBackfill, 10000), whatever failed before.
BackfillDelay(failures) == BACKFILL_RETRY_MS

\* scheduleBackfill() failed (the client test or the catch block):
\* setTimeout(scheduleBackfill, 10000).
BackfillFail ==
  /\ backfillRunning > 0
  /\ backfillTimers < MaxBackfillTimers
  /\ Len(backfillDelays) < MaxBackfillFailures
  /\ backfillRunning' = backfillRunning - 1
  /\ backfillTimers' = backfillTimers + 1
  /\ backfillDelays' = Append(backfillDelays,
                              BackfillDelay(Len(backfillDelays)))
  /\ UNCHANGED <<prefillInProgress, prefillAttempts, prefillComplete,
                 backfillComplete, prefillTimers, prefillRunning,
                 prefillDelays, backfillTriggers>>
  /\ UNCHANGED notPrefill

BackfillTimerFire ==
  /\ backfillTimers > 0
  /\ backfillTimers' = backfillTimers - 1
  /\ backfillRunning' = backfillRunning + 1
  /\ UNCHANGED <<prefillInProgress, prefillAttempts, prefillComplete,
                 backfillComplete, prefillTimers, prefillRunning,
                 prefillDelays, backfillTriggers,
                 backfillDelays>>
  /\ UNCHANGED notPrefill

\* The timers and intervals that call dailyActiveChatBackfill(): the
\* function is defined and no statement of index.ts calls it or passes it
\* to setTimeout or setInterval, so none is ever pending.
RefreshTimersPending == 0

(***************************************************************************)
(* Lifecycle: configuration                                                *)
(***************************************************************************)
BASE_RETRY_MS == 5000

MAX_RETRY_MS == 60000

MAX_RETRIES_BEFORE_AUTH_RESET == 5

HEARTBEAT_MS == 30000

\* The grace period of the heartbeat after 'authenticated'.
GRACE_MS == 30000

ServiceStates ==
  { "starting", "waiting_qr", "connected", "reconnecting", "needs_qr",
    "error", "shutting_down" }

ClientIds == 1..MaxClients

\* A client's phase: "none" (not created yet), "created", "initializing"
\* (initialize() called), "authed", "ready", "lost" (disconnected),
\* "failed" (initialize() rejected), "destroyed", and "destroyedPending"
\* (destroyed while its initialize() promise was still unsettled).
\* by: whose try block awaits its initialize(): "start", "retry" (start's
\* immediate retry) or "timer" (the reconnect callback).
NoClient == [phase |-> "none", by |-> "none"]

NumClients == Cardinality({c \in ClientIds : clients[c].phase # "none"})

\* setupCallHandlers is called by start() only.
HasCallHandlers(c) == clients[c].by \in {"start", "retry"}

\* client.destroy() on a client.
Destroyed(cl) ==
  IF cl.phase \in {"initializing", "authed"}
    THEN [cl EXCEPT !.phase = "destroyedPending"]
  ELSE IF cl.phase \in {"none", "destroyedPending"} THEN cl
  ELSE [cl EXCEPT !.phase = "destroyed"]

(***************************************************************************)
(* scheduleReconnect                                                       *)
(***************************************************************************)
\* Math.min(BASE_RETRY_MS * Math.pow(2, retryCount - 1), MAX_RETRY_MS)
BackoffDelay(n) == Min(BASE_RETRY_MS * Pow2(n - 1), MAX_RETRY_MS)

\* scheduleReconnect(), called with status.state already set to `st` by the
\* caller: nothing when shutting down; else count the retry, compute the
\* delay, set state reconnecting and re-arm the timer.
ScheduleReconnect(st) ==
  IF shuttingDown
    THEN /\ state' = st
         /\ UNCHANGED <<retryCount, timerPending, timerDelay, timerLeft, delays>>
    ELSE /\ retryCount' = retryCount + 1
         /\ state' = "reconnecting"
         /\ timerPending' = TRUE
         /\ timerDelay' = BackoffDelay(retryCount + 1)
         /\ timerLeft' = BackoffDelay(retryCount + 1)
         /\ delays' = Append(delays, BackoffDelay(retryCount + 1))

\* The model follows the retry counter up to MaxRetryCount.
CanSchedule == shuttingDown \/ retryCount < MaxRetryCount

\* The escalation of the reconnect callback that keeps the counter.
EscalatedRetryCountKept(rc) == rc

\* status.retryCount = 0 in the escalation branch.
EscalatedRetryCount(rc) == 0

\* The ready handler leaves status.retryCount as it is.
RetryCountOnReady(rc) == rc

(***************************************************************************)
(* start()                                                                 *)
(***************************************************************************)
StartBegin ==
  /\ proc = "running"
  /\ boot = "new"
  /\ boot' = "initializing"
  /\ state' = "starting"
  /\ clients' = [clients EXCEPT ![client] =
                   [phase |-> "initializing", by |-> "start"]]
  /\ UNCHANGED <<retryCount, everConnected, everAuthenticated, connectionReady,
                 indexesReady, liveListening, inGrace, graceLeft, shuttingDown, proc,
                 authDir, client, timerPending, timerDelay, timerLeft, delays, cbPending,
                 readyCooldown>>
  /\ UNCHANGED <<hbLeft, lastProbe, uncaughtFlip, notLife>>

\* start()'s second try: after the 1 s pause, initialize the global client.
StartRetry ==
  /\ proc = "running"
  /\ boot = "retryWait"
  /\ boot' = "done"
  /\ clients' = [clients EXCEPT ![client] =
                   IF @.phase = "created"
                     THEN [@ EXCEPT !.phase = "initializing"] ELSE @]
  /\ UNCHANGED <<state, retryCount, everConnected, everAuthenticated,
                 connectionReady, indexesReady, liveListening, inGrace, graceLeft,
                 shuttingDown, proc, authDir, client, timerPending, timerDelay, timerLeft,
                 delays, cbPending, readyCooldown>>
  /\ UNCHANGED <<hbLeft, lastProbe, uncaughtFlip, notLife>>

\* A start() whose catch goes straight to scheduleReconnect().
RetriesInProcessNever(by) == FALSE

\* The catch of start()'s first try makes a new client and tries again; the
\* catch of the retry and that of the reconnect callback call
\* scheduleReconnect().
RetriesInProcess(by) == by = "start"

\* initialize() of client c rejects: the try block that awaits it catches.
InitReject(c) ==
  /\ proc # "exited"
  /\ clients[c].phase \in {"initializing", "authed", "destroyedPending"}
  /\ LET after == [clients EXCEPT ![c].phase =
                     IF @ = "destroyedPending" THEN "destroyed" ELSE "failed"]
     IN
     IF RetriesInProcess(clients[c].by)
       THEN \* immediate retry with a new client; the old one is not destroyed
            /\ NumClients < MaxClients
            /\ clients' = [after EXCEPT ![NumClients + 1] =
                             [phase |-> "created", by |-> "retry"]]
            /\ client' = NumClients + 1
            /\ boot' = "retryWait"
            /\ UNCHANGED <<state, retryCount, timerPending, timerDelay, timerLeft, delays>>
       ELSE /\ CanSchedule
            /\ clients' = after
            /\ ScheduleReconnect(state)
            /\ UNCHANGED <<client, boot>>
  /\ UNCHANGED <<everConnected, everAuthenticated, connectionReady,
                 indexesReady, liveListening, inGrace, graceLeft, shuttingDown, proc,
                 authDir, cbPending, readyCooldown>>
  /\ UNCHANGED <<hbLeft, lastProbe, uncaughtFlip, notLife>>

(***************************************************************************)
(* setupEventHandlers                                                      *)
(***************************************************************************)
\* if (everAuthenticated) return: the challenge is skipped.
QrSkipped == everAuthenticated

\* 'qr': skipped once authenticated, else state waiting_qr.
Qr(c) ==
  /\ proc # "exited"
  /\ clients[c].phase = "initializing"
  /\ state' = IF QrSkipped THEN state ELSE "waiting_qr"
  /\ UNCHANGED <<retryCount, everConnected, everAuthenticated, connectionReady,
                 indexesReady, liveListening, inGrace, graceLeft, shuttingDown, proc,
                 authDir, client, clients, boot, timerPending, timerDelay, timerLeft,
                 delays, cbPending, readyCooldown>>
  /\ UNCHANGED <<hbLeft, lastProbe, uncaughtFlip, notLife>>

\* 'authenticated': lastAuthTime = Date.now(), everAuthenticated = true.
Authenticated(c) ==
  /\ proc # "exited"
  /\ clients[c].phase = "initializing"
  /\ clients' = [clients EXCEPT ![c].phase = "authed"]
  /\ inGrace' = TRUE
  /\ graceLeft' = GRACE_MS
  /\ everAuthenticated' = TRUE
  /\ authDir' = TRUE
  /\ UNCHANGED <<state, retryCount, everConnected, connectionReady,
                 indexesReady, liveListening, shuttingDown, proc, client, boot,
                 timerPending, timerDelay, timerLeft, delays, cbPending, readyCooldown>>
  /\ UNCHANGED <<hbLeft, lastProbe, uncaughtFlip, notLife>>

\* 'ready', up to its 5 s cooldown.
Ready(c) ==
  /\ proc # "exited"
  /\ clients[c].phase = "authed"
  /\ readyCooldown < MaxReadyCooldown
  /\ clients' = [clients EXCEPT ![c].phase = "ready"]
  /\ state' = "connected"
  /\ retryCount' = RetryCountOnReady(retryCount)
  /\ everConnected' = TRUE
  /\ connectionReady' = TRUE
  /\ readyCooldown' = readyCooldown + 1
  /\ delays' = <<>>
  /\ UNCHANGED <<everAuthenticated, indexesReady, liveListening, inGrace, graceLeft,
                 shuttingDown, proc, authDir, client, boot, timerPending,
                 timerDelay, timerLeft, cbPending>>
  /\ UNCHANGED <<hbLeft, lastProbe, uncaughtFlip, notLife>>

\* 'ready' after the cooldown: createIndexes() (which never throws), then the
\* flags, then schedulePrefillWithRetry().
ReadyResume(clientOk) ==
  /\ proc # "exited"
  /\ readyCooldown > 0
  /\ readyCooldown' = readyCooldown - 1
  /\ indexesReady' = TRUE
  /\ liveListening' = TRUE
  /\ PrefillEnter(clientOk, prefillTimers)
  /\ UNCHANGED <<state, retryCount, everConnected, everAuthenticated,
                 connectionReady, inGrace, graceLeft, shuttingDown, proc, authDir, client,
                 clients, boot, timerPending, timerDelay, timerLeft, delays, cbPending>>
  /\ UNCHANGED <<prefillComplete, backfillComplete, backfillRunning,
                 backfillTimers, backfillTriggers,
                 backfillDelays>>
  /\ UNCHANGED <<hbLeft, lastProbe, uncaughtFlip, ingestVars, callVars, cacheVars,
                 liveVars, healthVars>>

\* A handler that takes the connection's readiness back on a disconnect.
ReadinessCleared(flag) == FALSE

\* The disconnected handler assigns no readiness flag: connectionReady
\* keeps its value.
ReadinessOnDisconnect(flag) == flag

\* 'disconnected': state reconnecting, then scheduleReconnect().
Disconnected(c) ==
  /\ proc # "exited"
  /\ clients[c].phase = "ready"
  /\ CanSchedule
  /\ clients' = [clients EXCEPT ![c].phase = "lost"]
  /\ ScheduleReconnect("reconnecting")
  /\ connectionReady' = ReadinessOnDisconnect(connectionReady)
  /\ UNCHANGED <<everConnected, everAuthenticated,
                 indexesReady, liveListening, inGrace, graceLeft, shuttingDown, proc,
                 authDir, client, boot, cbPending, readyCooldown>>
  /\ UNCHANGED <<hbLeft, lastProbe, uncaughtFlip, notLife>>

(***************************************************************************)
(* The reconnect timer's callback                                          *)
(***************************************************************************)
\* The timer fires: the callback calls safeDestroy() on the global client
\* and awaits it.
TimerFire ==
  /\ proc # "exited"
  /\ timerPending
  /\ cbPending < MaxCallbacks
  /\ timerPending' = FALSE
  /\ clients' = [clients EXCEPT ![client] = Destroyed(@)]
  /\ cbPending' = cbPending + 1
  /\ UNCHANGED <<state, retryCount, everConnected, everAuthenticated,
                 connectionReady, indexesReady, liveListening, inGrace, graceLeft,
                 shuttingDown, proc, authDir, client, boot, timerDelay, timerLeft, delays,
                 readyCooldown>>
  /\ UNCHANGED <<hbLeft, lastProbe, uncaughtFlip, notLife>>

\* After safeDestroy(): a new client with event handlers, the escalation
\* check, and initialize().
TimerResume ==
  /\ proc # "exited"
  /\ cbPending > 0
  /\ NumClients < MaxClients
  /\ cbPending' = cbPending - 1
  /\ client' = NumClients + 1
  /\ clients' = [clients EXCEPT ![NumClients + 1] =
                   [phase |-> "initializing", by |-> "timer"]]
  /\ IF retryCount > MAX_RETRIES_BEFORE_AUTH_RESET
       THEN /\ state' = "needs_qr"
            /\ authDir' = FALSE
            /\ retryCount' = EscalatedRetryCount(retryCount)
            /\ delays' = IF retryCount' = 0 THEN <<>> ELSE delays
            /\ everAuthenticated' = FALSE
       ELSE UNCHANGED <<state, authDir, retryCount, delays, everAuthenticated>>
  /\ UNCHANGED <<everConnected, connectionReady, indexesReady, liveListening,
                 inGrace, graceLeft, shuttingDown, proc, boot, timerPending, timerDelay, timerLeft,
                 readyCooldown>>
  /\ UNCHANGED <<hbLeft, lastProbe, uncaughtFlip, notLife>>

(***************************************************************************)
(* Heartbeat                                                               *)
(***************************************************************************)
ProbeResults == {"CONNECTED", "OTHER", "THROWS"}

\* What client.getState() can answer for the global client.
ProbePossible(p) == p = "CONNECTED" => clients[client].phase = "ready"

\* The 30 s after the last 'authenticated' pass.
GraceExpire ==
  /\ proc # "exited"
  /\ inGrace
  /\ inGrace' = FALSE
  /\ graceLeft' = 0
  /\ UNCHANGED <<state, retryCount, everConnected, everAuthenticated,
                 connectionReady, indexesReady, liveListening, shuttingDown,
                 proc, authDir, client, clients, boot, timerPending, timerDelay, timerLeft,
                 delays, cbPending, readyCooldown>>
  /\ UNCHANGED <<hbLeft, lastProbe, uncaughtFlip, notLife>>

\* The heartbeat's conditions without the grace period.
HeartbeatReconnectsNoGrace(p) ==
  connectionReady /\ p # "CONNECTED" /\ everConnected

\* The heartbeat calls scheduleReconnect(): connection ready, the probe not
\* CONNECTED (or thrown), connected once before, and 30 s or more after the
\* last 'authenticated'.
HeartbeatReconnects(p) ==
  connectionReady /\ p # "CONNECTED" /\ everConnected /\ ~inGrace

\* One tick of the heartbeat interval with probe result p.
Heartbeat(p) ==
  /\ proc # "exited"
  /\ ProbePossible(p)
  /\ IF HeartbeatReconnects(p)
       THEN /\ CanSchedule
            /\ ScheduleReconnect(state)
       ELSE UNCHANGED <<state, retryCount, timerPending, timerDelay, timerLeft, delays>>
  /\ UNCHANGED <<everConnected, everAuthenticated, connectionReady,
                 indexesReady, liveListening, inGrace, graceLeft, shuttingDown, proc,
                 authDir, client, clients, boot, cbPending, readyCooldown>>
  /\ hbLeft' = HEARTBEAT_MS
  /\ lastProbe' = p
  /\ UNCHANGED <<uncaughtFlip, notLife>>

\* Time passes up to the next moment at which the heartbeat, the reconnect
\* timer or the end of the grace period is due.
NextDue ==
  Min(hbLeft,
      Min(IF timerPending THEN timerLeft ELSE hbLeft,
          IF inGrace THEN graceLeft ELSE hbLeft))

\* The steps of the clock: to the next due moment, or 5 s.
ClockAdvances == {NextDue, Min(NextDue, 5000)}

Tick(d) ==
  /\ proc # "exited"
  /\ d > 0
  /\ hbLeft' = hbLeft - d
  /\ timerLeft' = IF timerPending THEN timerLeft - d ELSE timerLeft
  /\ graceLeft' = IF inGrace THEN graceLeft - d ELSE graceLeft
  /\ UNCHANGED <<state, retryCount, everConnected, everAuthenticated,
                 connectionReady, indexesReady, liveListening, inGrace,
                 shuttingDown, proc, authDir, client, clients, boot,
                 timerPending, timerDelay, delays, cbPending, readyCooldown,
                 lastProbe, uncaughtFlip>>
  /\ UNCHANGED notLife

(***************************************************************************)
(* Shutdown and process-level error handlers                               *)
(***************************************************************************)
\* SIGINT / SIGTERM, up to the await of safeDestroy().
Shutdown ==
  /\ proc = "running"
  /\ shuttingDown' = TRUE
  /\ state' = "shutting_down"
  /\ timerPending' = FALSE
  /\ clients' = [clients EXCEPT ![client] = Destroyed(@)]
  /\ proc' = "exiting"
  /\ UNCHANGED <<retryCount, everConnected, everAuthenticated, connectionReady,
                 indexesReady, liveListening, inGrace, graceLeft, authDir, client, boot,
                 timerDelay, timerLeft, delays, cbPending, readyCooldown>>
  /\ UNCHANGED <<hbLeft, lastProbe, uncaughtFlip, notLife>>

\* process.exit(0) once safeDestroy() has settled.
Exit ==
  /\ proc = "exiting"
  /\ proc' = "exited"
  /\ UNCHANGED <<state, retryCount, everConnected, everAuthenticated,
                 connectionReady, indexesReady, liveListening, inGrace, graceLeft,
                 shuttingDown, authDir, client, clients, boot, timerPending,
                 timerDelay, timerLeft, delays, cbPending, readyCooldown>>
  /\ UNCHANGED <<hbLeft, lastProbe, uncaughtFlip, notLife>>

\* A handler that attempts recovery whatever happened before.
RecoversUncaughtAlways == TRUE

\* if (everConnected) of the two handlers.
RecoversUncaught == everConnected

\* uncaughtException / unhandledRejection.
UncaughtError ==
  /\ proc # "exited"
  /\ boot # "new"
  /\ uncaughtFlip' = ~uncaughtFlip
  /\ IF RecoversUncaught
       THEN /\ CanSchedule
            /\ ScheduleReconnect("reconnecting")
            /\ UNCHANGED proc
       ELSE /\ proc' = "exited"
            /\ UNCHANGED <<state, retryCount, timerPending, timerDelay, timerLeft, delays>>
  /\ UNCHANGED <<everConnected, everAuthenticated, connectionReady,
                 indexesReady, liveListening, inGrace, graceLeft, shuttingDown, authDir,
                 client, clients, boot, cbPending, readyCooldown>>
  /\ UNCHANGED <<hbLeft, lastProbe, notLife>>

(***************************************************************************)
(* Live capture: the message_create handler                                *)
(***************************************************************************)
\* m.getChat() rejected: the handler's catch logs the message id.
LiveGetChatFailed(id) ==
  /\ errLog' = errLog \cup {[op |-> "liveSave", messageId |-> id,
                            cause |-> "getChat"]}
  /\ UNCHANGED <<started, continuityDb, lastProcessedTimestamp, rawLog, chatsT,
                 contactsT, messagesT, reactionsT, lastMessageAt,
                 lastDbWriteAt, now, lastSave, insertCount>>

\* if (!indexesReady) { ... setTimeout(..., 1000); return; }
LiveTakes(ready) == ready

\* 'message_create' from client c: with the indexes ready the chat is
\* fetched and the message saved; otherwise the message is handed to a 1 s
\* timer.
MessageCreate(c, m, chat, names, getChatFails, failAt) ==
  /\ proc # "exited"
  /\ clients[c].phase = "ready"
  /\ IF LiveTakes(indexesReady)
       THEN /\ IF getChatFails THEN LiveGetChatFailed(m.id)
               ELSE SaveMessageEffect(m, chat, names, failAt)
            /\ UNCHANGED liveVars
       ELSE /\ deferred' = deferred \cup
                 {[m |-> m, connected |-> state = "connected"]}
            /\ UNCHANGED droppedLive
            /\ UNCHANGED ingestVars
  /\ UNCHANGED notLive

\* The deferral's timer fires: with the indexes ready by now the message is
\* saved, otherwise it is dropped with a log line.
DeferredFire(d, chat, names, getChatFails, failAt) ==
  /\ proc # "exited"
  /\ d \in deferred
  /\ deferred' = deferred \ {d}
  /\ IF indexesReady
       THEN /\ IF getChatFails THEN LiveGetChatFailed(d.m.id)
               ELSE SaveMessageEffect(d.m, chat, names, failAt)
            /\ UNCHANGED droppedLive
       ELSE /\ droppedLive' = droppedLive \cup {d}
            /\ UNCHANGED ingestVars
  /\ UNCHANGED notLive

(***************************************************************************)
(* Call (session) correlator: setupCallHandlers and saveCall               *)
(***************************************************************************)
CallIds == {"k1", "k2"}

NoCall == [status |-> "none", startTime |-> 0, endTime |-> NULL,
           durationMs |-> NULL]

TerminalStatuses == {"ended", "rejected", "missed"}

\* callEvent.state of a state-change notification: a status of the
\* CallState type, another string, or nothing (undefined).
EventStates ==
  {"connecting", "in_progress", "ended", "rejected", "missed", "ringing",
   NULL}

\* 'call': a pending CallState is built and stored under the call's id.
CallStart(id) ==
  /\ activeCalls' = [activeCalls EXCEPT ![id] =
       [status |-> "pending", startTime |-> callNow, endTime |-> NULL,
        durationMs |-> NULL]]
  /\ callLog' = callLog \cup {[what |-> "initiated", id |-> id]}
  /\ UNCHANGED <<callsRaw, callsT, callSaving, callNow, lastDbWriteAt>>
  /\ UNCHANGED notCalls

\* An update that ends a call without measuring it: the duration is 0.
UpdatedCallZeroDuration(existing, st) ==
  LET withStatus == [existing EXCEPT !.status = IF st = NULL THEN @ ELSE st]
  IN  IF st \in TerminalStatuses
        THEN [withStatus EXCEPT !.endTime = callNow, !.durationMs = 0]
        ELSE withStatus

\* { ...existingCall, status: callEvent.state || existingCall.status }, with
\* endTime and durationMs when the state is terminal.
UpdatedCall(existing, st) ==
  LET withStatus == [existing EXCEPT !.status = IF st = NULL THEN @ ELSE st]
  IN  IF st \in TerminalStatuses
        THEN [withStatus EXCEPT !.endTime = callNow,
                                !.durationMs = callNow - existing.startTime]
        ELSE withStatus

CallRecord(id, cs) ==
  [ id |-> id, timestamp |-> cs.startTime, durationMs |-> cs.durationMs,
    status |-> cs.status, endTimestamp |-> cs.endTime ]

\* A handler that takes every notification as one for a known call.
UnknownCallNever(existing) == FALSE

\* if (!existingCall): activeCalls.get found nothing.
UnknownCall(existing) == existing = NoCall

\* 'call:state_change', up to the await of the insert in saveCall.
CallStateChange(id, st, rawFails) ==
  IF UnknownCall(activeCalls[id])
    THEN /\ callLog' = callLog \cup {[what |-> "unknown call", id |-> id]}
         /\ UNCHANGED <<activeCalls, callsRaw, callsT, callSaving, callNow,
                        lastDbWriteAt>>
         /\ UNCHANGED notCalls
    ELSE LET updated == UpdatedCall(activeCalls[id], st)
             saving == st \in TerminalStatuses
         IN
         /\ saving /\ ~rawFails => Cardinality(callSaving) < MaxCallSaving
         /\ activeCalls' = [activeCalls EXCEPT ![id] = updated]
         /\ callsRaw' = IF saving /\ ~rawFails
                          THEN Append(callsRaw, CallRecord(id, updated))
                          ELSE callsRaw
         /\ callSaving' = IF saving /\ ~rawFails
                            THEN callSaving \cup {[id |-> id, call |-> updated]}
                            ELSE callSaving
         /\ callLog' = IF saving /\ rawFails
                         THEN callLog \cup {[what |-> "save failed", id |-> id]}
                         ELSE callLog
         /\ UNCHANGED <<callsT, callNow, lastDbWriteAt>>
         /\ UNCHANGED notCalls

\* The map after saveCall's clean-up that never deletes.
AfterCallSavedKept(calls, id, cs) == calls

\* if (['ended','rejected','missed'].includes(callState.status))
\*   activeCalls.delete(callEvent.id)
AfterCallSaved(calls, id, cs) ==
  IF cs.status \in TerminalStatuses THEN [calls EXCEPT ![id] = NoCall]
  ELSE calls

\* saveCall after the await of the insert: the insert threw (logged), or it
\* ran (onConflictDoNothing) and the completed call is removed from memory.
CallSaveFinish(sv, dbFails) ==
  /\ sv \in callSaving
  /\ callSaving' = callSaving \ {sv}
  /\ IF dbFails
       THEN /\ callLog' = callLog \cup {[what |-> "save failed", id |-> sv.id]}
            /\ UNCHANGED <<activeCalls, callsT, lastDbWriteAt>>
       ELSE /\ callsT' = IF \E r \in callsT : r.id = sv.id THEN callsT
                         ELSE callsT \cup {CallRecord(sv.id, sv.call)}
            /\ lastDbWriteAt' = callNow
            /\ activeCalls' = AfterCallSaved(activeCalls, sv.id, sv.call)
            /\ callLog' = callLog \cup {[what |-> "saved", id |-> sv.id]}
  /\ UNCHANGED <<callsRaw, callNow>>
  /\ UNCHANGED notCalls

\* Time passes between two notifications.
CallTick ==
  /\ callNow < MaxCallTime
  /\ callNow' = callNow + 1
  /\ UNCHANGED <<activeCalls, callsRaw, callsT, callSaving, callLog,
                 lastDbWriteAt>>
  /\ UNCHANGED notCalls

(***************************************************************************)
(* Contact cache: resolveContactName                                       *)
(***************************************************************************)
CONTACT_CACHE_TTL == 86400000

ContactIds == {"me", "a@c.us"}

NoEntry == [savedName |-> NULL, pushname |-> NULL, timestamp |-> -1]

\* What client.getContactById resolves to: the contact's name and pushname,
\* either of which may be empty or missing.
ContactLikes ==
  { [name |-> "Alice", pushname |-> "Al"],
    [name |-> "", pushname |-> NULL],
    [name |-> NULL, pushname |-> "Al"] }

\* x || null
OrNull(x) == IF x = "" \/ x = NULL THEN NULL ELSE x

NullNames == [savedName |-> NULL, pushname |-> NULL]

\* An entry that never goes stale.
CacheFreshForever(entry, t) == entry # NoEntry

\* cached && (Date.now() - cached.timestamp) < CONTACT_CACHE_TTL
CacheFresh(entry, t) ==
  entry # NoEntry /\ (t - entry.timestamp) < CONTACT_CACHE_TTL

NoLookup == [id |-> NULL, at |-> -1, how |-> "none", returned |-> NullNames,
             entry |-> NoEntry, entryLookupAt |-> -1]

\* resolveContactName up to its first return or its await: 'me' returns
\* nulls at once, a fresh entry is returned, otherwise getContactById is
\* called.
LookupStart(id) ==
  LET cached == contactCache[id]
      how == IF id = "me" THEN "me"
             ELSE IF CacheFresh(cached, cacheNow) THEN "hit" ELSE "invoked"
  IN
  /\ how = "invoked" => Cardinality(lookups) < MaxLookups
  /\ lookups' = IF how = "invoked"
                  THEN lookups \cup {[id |-> id, at |-> cacheNow]}
                  ELSE lookups
  /\ lastLookup' =
       [ id |-> id, at |-> cacheNow, how |-> how,
         returned |-> IF how = "hit"
                        THEN [savedName |-> cached.savedName,
                              pushname |-> cached.pushname]
                        ELSE NullNames,
         entry |-> cached, entryLookupAt |-> entryLookupAt[id] ]
  /\ UNCHANGED <<contactCache, cacheNow, cacheTicks, lastResolution,
                 entryLookupAt>>
  /\ UNCHANGED notCache

\* getContactById resolved: the result is cached with the time of this
\* moment and returned.
LookupResolved(lk, c) ==
  LET result == [savedName |-> OrNull(c.name), pushname |-> OrNull(c.pushname)]
  IN
  /\ lk \in lookups
  /\ lookups' = lookups \ {lk}
  /\ contactCache' = [contactCache EXCEPT ![lk.id] =
       [savedName |-> result.savedName, pushname |-> result.pushname,
        timestamp |-> cacheNow]]
  /\ entryLookupAt' = [entryLookupAt EXCEPT ![lk.id] = lk.at]
  /\ lastResolution' = [id |-> lk.id, ok |-> TRUE, returned |-> result,
                        at |-> cacheNow, started |-> lk.at]
  /\ UNCHANGED <<cacheNow, cacheTicks, lastLookup>>
  /\ UNCHANGED notCache

\* A catch block that caches the nulls it returns.
CacheAfterFailureStored(cache, id, t) ==
  [cache EXCEPT ![id] =
     [savedName |-> NULL, pushname |-> NULL, timestamp |-> t]]

\* The catch block does not touch contactCache.
CacheAfterFailure(cache, id, t) == cache

\* getContactById rejected: logged, nothing cached, nulls returned.
LookupFailed(lk) ==
  /\ lk \in lookups
  /\ lookups' = lookups \ {lk}
  /\ contactCache' = CacheAfterFailure(contactCache, lk.id, cacheNow)
  /\ lastResolution' = [id |-> lk.id, ok |-> FALSE, returned |-> NullNames,
                        at |-> cacheNow, started |-> lk.at]
  /\ UNCHANGED <<cacheNow, cacheTicks, lastLookup, entryLookupAt>>
  /\ UNCHANGED notCache

\* Milliseconds by which the clock moves between two steps.
ClockSteps == {1, CONTACT_CACHE_TTL - 1}

CacheTick(d) ==
  /\ cacheTicks < MaxCacheTicks
  /\ cacheTicks' = cacheTicks + 1
  /\ cacheNow' = cacheNow + d
  /\ UNCHANGED <<contactCache, lookups, lastLookup, lastResolution,
                 entryLookupAt>>
  /\ UNCHANGED notCache

(***************************************************************************)
(* HTTP: the /health handler                                               *)
(***************************************************************************)
\* 10 * 60 * 1000
HEALTH_WINDOW_MS == 600000

\* Date.now() when the process starts.
START_CLOCK == 600000

NoResponse == [ healthy |-> FALSE, state |-> "none", lastMessageAt |-> 0,
                timestamp |-> 0, code |-> 0 ]

\* A health test that looks at the state only.
IsHealthyByState(st, clock, last) == st = "connected"

\* status.state === 'connected' &&
\*   (Date.now() - status.lastMessageAt) < (10 * 60 * 1000)
IsHealthy(st, clock, last) ==
  st = "connected" /\ clock - last < HEALTH_WINDOW_MS

\* GET /health, served once start() has started the HTTP server.
HealthRequest ==
  /\ proc # "exited"
  /\ boot # "new"
  /\ healthResp' =
       [ healthy |-> IsHealthy(state, wallClock, lastMessageAt),
         state |-> state,
         lastMessageAt |-> lastMessageAt,
         timestamp |-> wallClock,
         code |-> IF IsHealthy(state, wallClock, lastMessageAt)
                    THEN 200 ELSE 503 ]
  /\ UNCHANGED <<wallClock, healthTicks>>
  /\ UNCHANGED <<ingestVars, lifeVars, callVars, cacheVars, prefillVars,
                 liveVars>>

\* The steps of the wall clock: one millisecond, or one short of the window.
HealthClockSteps == {1, HEALTH_WINDOW_MS - 1}

HealthTick(d) ==
  /\ healthTicks < MaxHealthTicks
  /\ healthTicks' = healthTicks + 1
  /\ wallClock' = wallClock + d
  /\ UNCHANGED healthResp
  /\ UNCHANGED <<ingestVars, lifeVars, callVars, cacheVars, prefillVars,
                 liveVars>>

\* saveMessage called at the wall clock's time.
HealthSave(m, chat, names, failAt) ==
  /\ SaveMessageAt(m, chat, names, failAt, wallClock)
  /\ UNCHANGED notIngest

(***************************************************************************)
(* Initial state                                                           *)
(***************************************************************************)
NoSave == [ id |-> NULL, at |-> 0, record |-> NULL, raw |-> "none", db |-> "none",
            storedBefore |-> FALSE, insertRan |-> FALSE, outcome |-> "none" ]

IngestInit ==
  /\ started = FALSE
  /\ continuityDb \in {NoRow, 1}
  /\ lastProcessedTimestamp = 0
  /\ rawLog = <<>>
  /\ chatsT = {}
  /\ contactsT = {}
  /\ messagesT = {}
  /\ reactionsT = {}
  /\ lastMessageAt = 0
  /\ lastDbWriteAt = 0
  /\ errLog = {}
  /\ now = 0
  /\ lastSave = NoSave
  /\ insertCount = [i \in MsgIds |-> 0]

LifeInit ==
  /\ state = "starting"
  /\ retryCount = 0
  /\ everConnected = FALSE
  /\ everAuthenticated = FALSE
  /\ connectionReady = FALSE
  /\ indexesReady = FALSE
  /\ liveListening = FALSE
  /\ inGrace = FALSE
  /\ graceLeft = 0
  /\ hbLeft = HEARTBEAT_MS
  /\ lastProbe = "none"
  /\ uncaughtFlip = FALSE
  /\ shuttingDown = FALSE
  /\ proc = "running"
  /\ authDir = FALSE
  /\ client = 1
  /\ clients = [c \in ClientIds |->
                  IF c = 1 THEN [phase |-> "created", by |-> "none"]
                  ELSE NoClient]
  /\ boot = "new"
  /\ timerPending = FALSE
  /\ timerDelay = 0
  /\ timerLeft = 0
  /\ delays = <<>>
  /\ cbPending = 0
  /\ readyCooldown = 0

CallInit ==
  /\ activeCalls = [id \in CallIds |-> NoCall]
  /\ callsRaw = <<>>
  /\ callsT = {}
  /\ callSaving = {}
  /\ callLog = {}
  /\ callNow = 0

CacheInit ==
  /\ contactCache = [id \in ContactIds |-> NoEntry]
  /\ cacheNow = 0
  /\ cacheTicks = 0
  /\ lookups = {}
  /\ lastLookup = NoLookup
  /\ lastResolution = [id |-> NULL, ok |-> FALSE, returned |-> NullNames,
                       at |-> -1, started |-> -1]
  /\ entryLookupAt = [id \in ContactIds |-> -1]

PrefillInit ==
  /\ prefillInProgress = FALSE
  /\ prefillAttempts = 0
  /\ prefillComplete = FALSE
  /\ backfillComplete = FALSE
  /\ prefillTimers = 0
  /\ prefillRunning = 0
  /\ backfillRunning = 0
  /\ backfillTimers = 0
  /\ prefillDelays = <<>>
  /\ backfillTriggers = 0
  /\ backfillDelays = <<>>

LiveInit ==
  /\ deferred = {}
  /\ droppedLive = {}

\* Date.now() at process start is far more than ten minutes after the epoch.
HealthInit ==
  /\ wallClock = START_CLOCK
  /\ healthResp = NoResponse
  /\ healthTicks = 0

Init ==
  /\ IngestInit /\ LifeInit /\ CallInit /\ CacheInit /\ PrefillInit
  /\ LiveInit /\ HealthInit

(***************************************************************************)
(* The ingestion pipeline's specification                                  *)
(***************************************************************************)
IngestNext ==
  \/ \E readFails \in BOOLEAN : StartIngest(readFails)
  \/ \E m \in MessageInputs, chat \in ChatInputs, names \in NameResults,
        failAt \in FaultPoints :
       /\ chat.id = MsgChat(m.id)
       /\ SaveMessage(m, chat, names, failAt)
  \/ \E m \in MessageInputs, chat \in ChatInputs, engineFault \in BOOLEAN :
       /\ chat.id = MsgChat(m.id)
       /\ OpsInsert(m, chat, engineFault)

SpecIngest == Init /\ [][IngestNext]_vars

(***************************************************************************)
(* The pipeline across restarts of the process, on a fresh database whose  *)
(* reads succeed                                                           *)
(***************************************************************************)
RestartNext ==
  \/ StartIngest(FALSE)
  \/ \E m \in MessageInputs, chat \in ChatInputs, names \in NameResults,
        failAt \in {"none", "raw"} :
       /\ chat.id = MsgChat(m.id)
       /\ SaveMessage(m, chat, names, failAt)
  \/ Restart

InitRestart == Init /\ continuityDb = NoRow

SpecRestart == InitRestart /\ [][RestartNext]_vars

(***************************************************************************)
(* The lifecycle's specification                                           *)
(***************************************************************************)
LifeNext ==
  \/ StartBegin
  \/ StartRetry
  \/ \E c \in ClientIds : InitReject(c)
  \/ \E c \in ClientIds : Qr(c)
  \/ \E c \in ClientIds : Authenticated(c)
  \/ \E c \in ClientIds : Ready(c)
  \/ \E clientOk \in BOOLEAN : ReadyResume(clientOk)
  \/ \E c \in ClientIds : Disconnected(c)
  \/ TimerFire
  \/ TimerResume
  \/ GraceExpire
  \/ \E p \in ProbeResults : Heartbeat(p)
  \/ Shutdown
  \/ Exit
  \/ UncaughtError

\* The lifecycle does not read the continuity row: it starts without one.
InitLife == Init /\ continuityDb = NoRow

SpecLife == InitLife /\ [][LifeNext]_vars

(***************************************************************************)
(* The call correlator's specification                                     *)
(***************************************************************************)
CallNext ==
  \/ \E id \in CallIds : CallStart(id)
  \/ \E id \in CallIds, st \in EventStates, rawFails \in BOOLEAN :
       /\ Len(callsRaw) < MaxCallRecords
       /\ CallStateChange(id, st, rawFails)
  \/ \E sv \in callSaving, dbFails \in BOOLEAN : CallSaveFinish(sv, dbFails)
  \/ CallTick

InitCalls == Init /\ continuityDb = NoRow

SpecCalls == InitCalls /\ [][CallNext]_vars

(***************************************************************************)
(* The contact cache's specification                                       *)
(***************************************************************************)
CacheNext ==
  \/ \E id \in ContactIds : LookupStart(id)
  \/ \E lk \in lookups, c \in ContactLikes : LookupResolved(lk, c)
  \/ \E lk \in lookups : LookupFailed(lk)
  \/ \E d \in ClockSteps : CacheTick(d)

InitCache == Init /\ continuityDb = NoRow

SpecCache == InitCache /\ [][CacheNext]_vars

(***************************************************************************)
(* The catch-up scheduler's specification: the connection's events, the    *)
(* scheduler's timers and executions, and the messages they save           *)
(***************************************************************************)
\* What the catch-up phases fetch in this specification.
FetchedInputs == {m \in MessageInputs : m.id = "m1" /\ m.reactions = <<>>}

FetchedChats == {c \in ChatInputs : c.name = "Alice"}

PrefillNext ==
  \/ \E readFails \in {FALSE} : StartIngest(readFails)
  \/ StartBegin
  \/ Authenticated(client)
  \/ Ready(client)
  \/ Disconnected(client)
  \/ TimerFire
  \/ TimerResume
  \/ \E clientOk \in BOOLEAN : ReadyResume(clientOk)
  \/ \E clientOk \in BOOLEAN : PrefillTimerFire(clientOk)
  \/ \E m \in FetchedInputs, chat \in FetchedChats, failAt \in {"none", "raw"} :
       /\ chat.id = MsgChat(m.id)
       /\ PrefillSave(m, chat, [savedName |-> NULL, pushname |-> NULL], failAt)
  \/ PrefillSucceed
  \/ PrefillFail
  \/ \E m \in FetchedInputs, chat \in FetchedChats, failAt \in {"none", "raw"} :
       /\ chat.id = MsgChat(m.id)
       /\ BackfillSave(m, chat, [savedName |-> NULL, pushname |-> NULL], failAt)
  \/ BackfillSucceed
  \/ BackfillFail
  \/ BackfillTimerFire

InitPrefill == Init /\ continuityDb = NoRow

SpecPrefill == InitPrefill /\ [][PrefillNext]_vars

\* The prefill retry chain alone, followed past the age reset of its
\* counter, next to disconnects that move the connection's retry counter.
BackoffNext ==
  \/ StartBegin
  \/ Authenticated(client)
  \/ Ready(client)
  \/ Disconnected(client)
  \/ \E clientOk \in BOOLEAN : ReadyResume(clientOk)
  \/ \E clientOk \in BOOLEAN : PrefillTimerFireUpTo(MaxPrefillChain, clientOk)
  \/ PrefillSucceed
  \/ PrefillFail

InitBackoff == Init /\ continuityDb = NoRow

SpecBackoff == InitBackoff /\ [][BackoffNext]_vars

\* Timers set with setTimeout fire while the process runs.
SpecPrefillTimers ==
  /\ SpecPrefill
  /\ WF_vars(BackfillTimerFire)

(***************************************************************************)
(* Live capture's specification: the first connection and the messages     *)
(* that arrive on it                                                       *)
(***************************************************************************)
\* The messages that arrive in this specification, and their chats.
LiveInputs ==
  {m \in MessageInputs : m.id \in {"m1", "m2"} /\ m.reactions = <<>>}

LiveChats == {c \in ChatInputs : c.name # "Alice B"}

LiveNext ==
  \/ \E readFails \in {FALSE} : StartIngest(readFails)
  \/ StartBegin
  \/ Authenticated(client)
  \/ Ready(client)
  \/ \E clientOk \in BOOLEAN : ReadyResume(clientOk)
  \/ \E m \in LiveInputs, chat \in LiveChats,
        getChatFails \in BOOLEAN, failAt \in {"none", "raw"} :
       /\ chat.id = MsgChat(m.id)
       /\ MessageCreate(client, m, chat,
                        [savedName |-> NULL, pushname |-> NULL],
                        getChatFails, failAt)
  \/ \E d \in deferred, chat \in LiveChats,
        getChatFails \in BOOLEAN, failAt \in {"none", "raw"} :
       /\ chat.id = MsgChat(d.m.id)
       /\ DeferredFire(d, chat, [savedName |-> NULL, pushname |-> NULL],
                       getChatFails, failAt)

InitLive == Init /\ continuityDb = NoRow

SpecLive == InitLive /\ [][LiveNext]_vars

(***************************************************************************)
(* The lifecycle with its timers on a clock: the reconnect timer, the      *)
(* heartbeat interval and the grace period fire when they are due; a       *)
(* reconnect callback's safeDestroy() settles before the clock's next step *)
(***************************************************************************)
TimedNext ==
  \/ StartBegin
  \/ StartRetry
  \/ \E c \in ClientIds : InitReject(c)
  \/ \E c \in ClientIds : Authenticated(c)
  \/ \E c \in ClientIds : Ready(c)
  \/ \E clientOk \in BOOLEAN : ReadyResume(clientOk)
  \/ \E c \in ClientIds : Disconnected(c)
  \/ timerLeft = 0 /\ TimerFire
  \/ TimerResume
  \/ graceLeft = 0 /\ GraceExpire
  \/ \E p \in ProbeResults :
       hbLeft = 0 /\ ~(inGrace /\ graceLeft = 0) /\ Heartbeat(p)
  \/ \E d \in ClockAdvances : cbPending = 0 /\ Tick(d)
  \/ Shutdown
  \/ Exit

InitTimed == Init /\ continuityDb = NoRow

SpecTimed == InitTimed /\ [][TimedNext]_vars

(***************************************************************************)
(* The /health endpoint beside the lifecycle and the pipeline              *)
(***************************************************************************)
HealthNext ==
  \/ StartIngest(FALSE)
  \/ StartBegin
  \/ Qr(client)
  \/ Authenticated(client)
  \/ Ready(client)
  \/ Disconnected(client)
  \/ Shutdown
  \/ \E m \in FetchedInputs, chat \in FetchedChats,
        failAt \in {"none", "message"} :
       /\ chat.id = MsgChat(m.id)
       /\ HealthSave(m, chat, [savedName |-> NULL, pushname |-> NULL], failAt)
  \/ \E d \in HealthClockSteps : HealthTick(d)
  \/ HealthRequest

InitHealth == Init /\ continuityDb = NoRow

SpecHealth == InitHealth /\ [][HealthNext]_vars

(***************************************************************************)
(* Claims about the ingestion pipeline                                     *)
(***************************************************************************)
RowsWithId(id) == {r \in messagesT : r.id = id}

\* C1: after any sequence of message inserts that share an id (the insert of
\* saveMessage and insertMessage of db/ops.ts), the messages table holds
\* exactly one row with that id, and no insert failed because the id was
\* already there.
C1_InsertIdempotent ==
  /\ \A id \in MsgIds :
       Cardinality(RowsWithId(id)) = IF insertCount[id] > 0 THEN 1 ELSE 0
  /\ \A e \in errLog : e.cause # "unique"

C1_Witness ==
  \E id \in MsgIds : insertCount[id] >= 2 /\ Cardinality(RowsWithId(id)) = 1

InRawLog(rec) == \E i \in 1..Len(rawLog) : rawLog[i] = rec

LoggedFor(op, id) == \E e \in errLog : e.op = op /\ e.messageId = id

\* The state right after a saveMessage call whose raw append succeeded and
\* whose structured-storage stage failed.
DbStageFailed ==
  lastSave.at = now /\ lastSave.raw = "ok" /\ lastSave.db = "failed"

\* C2 as stated: when the raw append succeeds and the structured-storage
\* stage fails, saveMessage returns, the raw log holds the event, the
\* messages table does not hold it, and an error carrying its id is logged.
C2_AsStated ==
  DbStageFailed =>
    /\ lastSave.outcome = "returned"
    /\ InRawLog(lastSave.record)
    /\ ~Stored(lastSave.id)
    /\ LoggedFor("saveMessage", lastSave.id)

\* C2 amended: the same, where the messages table is without the event
\* when the event was not stored before the call and the statement that
\* failed is the event insert or one before it; a failure in a later
\* statement (a reaction insert) leaves the event stored.
C2_DbFailureContained ==
  DbStageFailed =>
    /\ lastSave.outcome = "returned"
    /\ InRawLog(lastSave.record)
    /\ LoggedFor("saveMessage", lastSave.id)
    /\ (~lastSave.storedBefore /\ ~lastSave.insertRan => ~Stored(lastSave.id))
    /\ (lastSave.insertRan => Stored(lastSave.id))

C2_Witness ==
  /\ DbStageFailed
  /\ ~lastSave.storedBefore
  /\ ~lastSave.insertRan
  /\ ~Stored(lastSave.id)
  /\ messagesT # {}

\* A step that is a saveMessage call whose raw append failed.
RawFailedStep == lastSave'.at = now' /\ now' = now + 1 /\ lastSave'.raw = "failed"

\* C3: a failed raw append aborts the event: no chat, contact, message or
\* reaction row is written, the raw log, the watermark, lastMessageAt and
\* lastDbWriteAt are unchanged, the failure is logged with the event id and
\* saveMessage returns.
C3_RawFailureAborts ==
  [][ RawFailedStep =>
        /\ UNCHANGED <<chatsT, contactsT, messagesT, reactionsT, rawLog,
                       lastProcessedTimestamp, lastMessageAt, lastDbWriteAt>>
        /\ \E e \in errLog' :
             e.op = "rawAppend" /\ e.messageId = lastSave'.id
        /\ lastSave'.outcome = "returned" ]_vars

C3_Witness ==
  /\ lastSave.raw = "failed"
  /\ messagesT # {}
  /\ LoggedFor("rawAppend", lastSave.id)

\* C4: after the startup load the watermark never decreases, and every
\* successful save sets it to max(current, event timestamp).
C4_WatermarkMonotonic ==
  [][ started =>
        /\ lastProcessedTimestamp' >= lastProcessedTimestamp
        /\ (lastSave'.at = now' /\ now' = now + 1 /\ lastSave'.db = "ok" =>
              lastProcessedTimestamp' =
                Max(lastProcessedTimestamp, MsgTimestamp(lastSave'.id))) ]_vars

C4_Witness ==
  /\ lastSave.db = "ok"
  /\ MsgTimestamp(lastSave.id) < lastProcessedTimestamp

\* The calls of saveMessage the source can cause: a message with the chat
\* object and the resolved names of the moment.
SaveEvents ==
  { e \in [m : MessageInputs, chat : ChatInputs, names : NameResults] :
      e.chat.id = MsgChat(e.m.id) }

\* Structured storage after saveMessage has ingested e on the tables t
\* without a storage fault.
StoreAfter(t, e) ==
  LET db == DbStageOn(t, e.m, e.chat, SaveNames(e.m, e.names), "none")
  IN  [ chats |-> db.chats, contacts |-> db.contacts,
        messages |-> db.messages, reactions |-> db.reactions ]

\* C19 as stated: from any store the pipeline has produced, ingesting two
\* events in either order leaves the same chat, contact and message rows.
C19_WritesCommute ==
  \A e1, e2 \in SaveEvents :
    LET ab == StoreAfter(StoreAfter(Tables, e1), e2)
        ba == StoreAfter(StoreAfter(Tables, e2), e1)
    IN  /\ ab.chats = ba.chats
        /\ ab.contacts = ba.contacts
        /\ ab.messages = ba.messages

\* C20 as stated: from any store the pipeline has produced, ingesting an
\* event a second time leaves every table, the reactions included, as it
\* was after the first ingestion.
C20_ReplayAddsNoRow ==
  \A e \in SaveEvents :
    StoreAfter(StoreAfter(Tables, e), e) = StoreAfter(Tables, e)

\* C31 as stated: after the storage stage has ingested an event without a
\* fault, the chat row and the contact row of the event hold the incoming
\* values (a row that existed is merged with them, a row that did not exist
\* is created), one row per id.
C31_UpsertMerges ==
  \A e \in SaveEvents :
    LET after == StoreAfter(Tables, e)
        names == SaveNames(e.m, e.names)
        senderId == SenderId(e.m)
    IN  /\ e.chat.name # "WhatsApp" =>
             {r \in after.chats : r.id = e.chat.id}
               = {[id |-> e.chat.id, name |-> e.chat.name]}
        /\ senderId # "me" =>
             {r \in after.contacts : r.id = senderId}
               = {[ id |-> senderId, savedName |-> names.savedName,
                    pushname |-> names.pushname,
                    displayName |-> DisplayName(names, senderId) ]}

\* The largest timestamp (seconds) among the persisted messages, 0 when
\* there is none.
MaxPersistedTimestamp ==
  IF messagesT = {} THEN 0
  ELSE CHOOSE t \in {r.ts \div 1000 : r \in messagesT} :
         \A r \in messagesT : r.ts \div 1000 <= t

\* C21 as stated: the watermark is flushed after every persisted event, so
\* a start of the process loads the largest timestamp among the events
\* persisted before it (0 when there is none).
C21_RestartLoadsWatermark ==
  [][ (~started /\ started') =>
        lastProcessedTimestamp' = MaxPersistedTimestamp ]_vars

(***************************************************************************)
(* Claims about the lifecycle                                              *)
(***************************************************************************)
\* min(5000 * 2^(n-1), 60000) for n = 1, 2, ...
ExpectedDelay(n) ==
  IF n <= 6 THEN <<5000, 10000, 20000, 40000, 60000, 60000>>[n] ELSE 60000

\* C5 as stated: the delay scheduleReconnect computes for the n-th
\* consecutive failure (n counted since the last successful connection or
\* credential reset) is min(5000 * 2^(n-1), 60000): the delays of consecutive
\* failures are 5000, 10000, 20000, 40000, 60000, 60000, ...
C5_BackoffSequence ==
  \A n \in 1..Len(delays) : delays[n] = ExpectedDelay(n)

C7_CounterZeroWhenConnected ==
  state = "connected" => retryCount = 0

\* C12 as stated: while no termination signal has arrived, each scheduled
\* reconnect delay elapses and its reinitialization attempt is executed,
\* whatever the heartbeat does: a pending reconnect timer is not cancelled
\* or pushed back before it fires.
C12_ScheduledDelayElapses ==
  [][ (timerPending /\ timerLeft > 0 /\ ~shuttingDown') =>
        (timerPending' /\ timerLeft' <= timerLeft) ]_vars

\* A step of the heartbeat interval: its 30 s have elapsed and it re-arms.
HeartbeatStep == hbLeft = 0 /\ hbLeft' = HEARTBEAT_MS

\* C13: a heartbeat whose probe is not CONNECTED or throws, within the 30 s
\* after the last 'authenticated', schedules nothing and changes neither the
\* lifecycle state nor the retry counter; after those 30 s, once connected
\* before, it does what scheduleReconnect() does for a 'disconnected' event:
\* counts the retry, sets state reconnecting and arms the timer with the
\* backoff delay.
C13_GraceWindow ==
  [][ (HeartbeatStep /\ lastProbe' # "CONNECTED") =>
        /\ (inGrace /\ graceLeft > 0) =>
              UNCHANGED <<state, retryCount, timerPending, timerDelay,
                          timerLeft, delays, client, clients, cbPending>>
        /\ (~inGrace /\ everConnected /\ ~shuttingDown) =>
              /\ retryCount' = retryCount + 1
              /\ state' = "reconnecting"
              /\ timerPending'
              /\ timerDelay' = BackoffDelay(retryCount + 1)
              /\ timerLeft' = timerDelay' ]_vars

\* Just after a heartbeat outside the grace period whose probe threw: the
\* reconnect timer is freshly armed.
C13_Witness ==
  /\ lastProbe = "THROWS"
  /\ hbLeft = HEARTBEAT_MS
  /\ ~inGrace
  /\ everConnected
  /\ ~shuttingDown
  /\ state = "reconnecting"
  /\ timerPending
  /\ timerLeft = timerDelay

\* C14 as stated: a termination signal sets the state to shutting_down
\* whatever it was, and no later step changes the state again.
C14_ShuttingDownTerminal ==
  [][ /\ (shuttingDown' /\ ~shuttingDown) => state' = "shutting_down"
      /\ state = "shutting_down" => state' = "shutting_down" ]_vars

\* A step of the uncaughtException / unhandledRejection handlers.
UncaughtStep == uncaughtFlip' # uncaughtFlip

\* C15: once connected at least once, an uncaught exception or unhandled
\* rejection does not end the process and goes through scheduleReconnect()
\* (which counts the retry and arms the timer unless a termination signal
\* has arrived); before the first connection it ends the process; and after
\* the first connection the process ends only by the termination signal.
C15_UncaughtErrors ==
  /\ [][ UncaughtStep =>
           IF everConnected
             THEN /\ proc' = proc
                  /\ ~shuttingDown =>
                       /\ state' = "reconnecting"
                       /\ retryCount' = retryCount + 1
                       /\ timerPending'
                       /\ timerDelay' = BackoffDelay(retryCount + 1)
             ELSE proc' = "exited" ]_vars
  /\ [][ (everConnected /\ proc # "exited" /\ proc' = "exited") =>
           (shuttingDown /\ proc = "exiting") ]_vars

\* An uncaught error was survived: the process runs with a reconnect
\* scheduled.
C15_Witness ==
  /\ uncaughtFlip
  /\ everConnected
  /\ proc = "running"
  /\ state = "reconnecting"
  /\ timerPending

\* A client is active from initialize() until destroy(): initializing,
\* authenticated, ready, or disconnected and not yet destroyed.
ActiveClients ==
  {c \in ClientIds : clients[c].phase \in
                       {"initializing", "authed", "ready", "lost"}}

\* C16 as stated: at any time at most one client is active.
C16_OneActiveClient == Cardinality(ActiveClients) <= 1

\* C22: every /health response says healthy exactly when the state it
\* reports is connected, a last message exists, and the time from that
\* message to the response is below ten minutes.
C22_HealthPredicate ==
  healthResp # NoResponse =>
    (healthResp.healthy <=>
       /\ healthResp.state = "connected"
       /\ healthResp.lastMessageAt > 0
       /\ healthResp.timestamp - healthResp.lastMessageAt < 600000)

\* A healthy response one millisecond before the window closes.
C22_Witness ==
  /\ healthResp.healthy
  /\ healthResp.code = 200
  /\ healthResp.state = "connected"
  /\ healthResp.timestamp - healthResp.lastMessageAt = 599999

\* An unhealthy response in state connected, exactly ten minutes after the
\* last message.
C22_WitnessStale ==
  /\ ~healthResp.healthy
  /\ healthResp.code = 503
  /\ healthResp.state = "connected"
  /\ healthResp.lastMessageAt > 0
  /\ healthResp.timestamp - healthResp.lastMessageAt = 600000

\* The transitions the design names, awaiting_authentication being
\* waiting_qr and needs_reauthentication being needs_qr.
DefinedTransitions ==
  { <<"starting", "waiting_qr">>, <<"starting", "connected">>,
    <<"waiting_qr", "connected">>, <<"connected", "reconnecting">>,
    <<"reconnecting", "connected">>, <<"reconnecting", "needs_qr">>,
    <<"needs_qr", "waiting_qr">> }

\* C25 as stated: every change of the lifecycle state is one of the defined
\* transitions, or a change to shutting_down.
C25_DefinedTransitions ==
  [][ state' # state =>
        (<<state, state'>> \in DefinedTransitions
           \/ state' = "shutting_down") ]_vars

\* The step in which the initialize() awaited by start()'s first try
\* rejects.
FirstInitFailedStep == boot = "initializing" /\ boot' = "retryWait"

\* initialize() of client c rejects in this step.
InitFailedStep(c) ==
  /\ clients[c].phase \in {"initializing", "authed", "destroyedPending"}
  /\ clients'[c].phase \in {"failed", "destroyed"}

\* C26: when the first initialize() of start() fails, a new client is made
\* and initialized once, without counting a retry or arming the reconnect
\* timer; start() retries at most once; the failure of that retry calls
\* scheduleReconnect(); and before any connection, scheduleReconnect() runs
\* only on the failure of the retry or of a client made by the reconnect
\* callback.
C26_OneImmediateRetry ==
  /\ [][ FirstInitFailedStep =>
           /\ retryCount' = retryCount
           /\ UNCHANGED <<state, timerPending>>
           /\ client' # client
           /\ clients[client'].phase = "none"
           /\ clients'[client'] = [phase |-> "created", by |-> "retry"] ]_vars
  /\ [][ (boot = "retryWait" /\ boot' = "done"
            /\ clients[client].phase = "created") =>
           clients'[client].phase = "initializing" ]_vars
  /\ [](Cardinality({c \in ClientIds : clients[c].by = "retry"}) <= 1)
  /\ [][ \A c \in ClientIds :
           (InitFailedStep(c) /\ clients[c].by = "retry" /\ ~shuttingDown) =>
             /\ retryCount' = retryCount + 1
             /\ state' = "reconnecting"
             /\ timerPending' ]_vars
  /\ [][ (retryCount' > retryCount /\ ~everConnected) =>
           \E c \in ClientIds :
             InitFailedStep(c) /\ clients[c].by \in {"retry", "timer"} ]_vars

\* Both attempts of start() have failed and the first reconnect is
\* scheduled.
C26_Witness ==
  /\ clients[1] = [phase |-> "failed", by |-> "start"]
  /\ clients[2] = [phase |-> "failed", by |-> "retry"]
  /\ boot = "done"
  /\ retryCount = 1
  /\ timerPending
  /\ state = "reconnecting"

\* C27 as stated: while the state is needs_qr, the challenge a client can
\* emit next is not skipped by the qr handler, which then sets waiting_qr.
C27_ChallengeAccepted ==
  \A c \in ClientIds :
    (state = "needs_qr" /\ proc # "exited"
       /\ clients[c].phase = "initializing") => ~QrSkipped

\* C36 as stated: in every reachable state the retry counter is at most
\* MAX_RETRIES_BEFORE_AUTH_RESET + 1.
C36_RetryCounterBounded == retryCount <= MAX_RETRIES_BEFORE_AUTH_RESET + 1

\* C37 as stated: whenever the state is connected no reconnect timer is
\* pending and no reconnect callback is executing, and no reconnect callback
\* destroys a client that is ready.
C37_NoReconnectWhileConnected ==
  /\ [](state = "connected" => (~timerPending /\ cbPending = 0))
  /\ [][\A c \in ClientIds :
          (state = "connected" /\ clients[c].phase = "ready"
             /\ clients'[c].phase = "destroyed") => shuttingDown']_vars

\* C39 as stated: the client in use, once ready, has the handlers of the
\* call correlator attached, whether it was created by start() or by a
\* reconnection, so that its call notifications are handled.
C39_CallsHandledAfterReconnect ==
  clients[client].phase = "ready" => HasCallHandlers(client)

\* C34 as stated: once shutdown has begun no reconnect timer is pending
\* (the pending one was cancelled and none is created), and no prefill
\* retry timer and no backfill retry timer is created.
C34_ShutdownStopsScheduling ==
  [][ /\ shuttingDown' => ~timerPending'
      /\ shuttingDown =>
           /\ prefillTimers' <= prefillTimers
           /\ backfillTimers' <= backfillTimers ]_vars

(***************************************************************************)
(* Claims about the call correlator                                        *)
(***************************************************************************)
SaveInFlight(id) == \E sv \in callSaving : sv.id = id

\* C8 as stated: a call that has reached a terminal status (ended, rejected
\* or missed) is removed from the activeCalls map: outside the save that is
\* writing it, the map holds no call with a terminal status, so that a later
\* state change for that id finds no entry.
C8_TerminalCallRemoved ==
  \A id \in CallIds :
    activeCalls[id].status \in TerminalStatuses => SaveInFlight(id)

\* The step of a state-change notification whose id has no entry.
UnknownCallStep ==
  \E id \in CallIds :
    /\ activeCalls[id] = NoCall
    /\ [what |-> "unknown call", id |-> id] \in callLog' \ callLog

\* C24: a state-change notification for an id without an entry is logged
\* and changes nothing else: the map, the raw log and the calls table stay
\* as they are; an entry comes into being only as a pending one, and every
\* record appended to the raw log is that of an id that had an entry.
C24_UnknownCallDropped ==
  [][ /\ UnknownCallStep =>
           UNCHANGED <<activeCalls, callsRaw, callsT, callSaving,
                       lastDbWriteAt>>
      /\ \A id \in CallIds :
           (activeCalls[id] = NoCall /\ activeCalls'[id] # NoCall) =>
             activeCalls'[id].status = "pending"
      /\ Len(callsRaw') > Len(callsRaw) =>
           activeCalls[callsRaw'[Len(callsRaw')].id] # NoCall ]_vars

\* A state change for k1, which never started, was logged and dropped.
C24_Witness ==
  /\ [what |-> "unknown call", id |-> "k1"] \in callLog
  /\ [what |-> "initiated", id |-> "k1"] \notin callLog
  /\ activeCalls["k1"] = NoCall
  /\ \A i \in 1..Len(callsRaw) : callsRaw[i].id # "k1"
  /\ \A r \in callsT : r.id # "k1"

\* The step of a 'call' notification for id: a pending entry started now is
\* stored and the notification is logged.
CallStartStep(id) ==
  /\ activeCalls'[id] = [status |-> "pending", startTime |-> callNow,
                         endTime |-> NULL, durationMs |-> NULL]
  /\ [what |-> "initiated", id |-> id] \in callLog'
  /\ UNCHANGED <<callsRaw, callsT, callSaving, callNow>>

\* C28 as stated: a start notification for an id that already has an entry
\* leaves that entry as it is, its status and its start time included; a
\* pending entry is created only for an id without one.
C28_StartKeepsExistingEntry ==
  [][ \A id \in CallIds :
        (activeCalls[id] # NoCall /\ CallStartStep(id)) =>
          /\ activeCalls'[id].status = activeCalls[id].status
          /\ activeCalls'[id].startTime = activeCalls[id].startTime ]_vars

CallStatuses ==
  {"pending", "connecting", "in_progress", "ended", "rejected", "missed"}

\* pending -> connecting -> in_progress -> {ended | rejected | missed}
StatusRank(st) ==
  CASE st = "pending" -> 0
    [] st = "connecting" -> 1
    [] st = "in_progress" -> 2
    [] OTHER -> 3

\* A step that changes the entry of id and is not a start notification.
StateChangeStep(id) ==
  /\ activeCalls[id] # NoCall
  /\ activeCalls'[id] # NoCall
  /\ activeCalls'[id] # activeCalls[id]
  /\ ~CallStartStep(id)

\* C29 as stated: every entry's status is one of pending, connecting,
\* in_progress, ended, rejected, missed, and no state-change notification
\* moves an entry to an earlier status of that order.
C29_StatusMovesForward ==
  [][ \A id \in CallIds :
        /\ activeCalls'[id] # NoCall =>
             activeCalls'[id].status \in CallStatuses
        /\ StateChangeStep(id) =>
             StatusRank(activeCalls'[id].status)
               >= StatusRank(activeCalls[id].status) ]_vars

\* The step of a state-change notification that gives the entry of id a
\* terminal status.
TerminalChangeStep(id) ==
  /\ StateChangeStep(id)
  /\ activeCalls'[id].status \in TerminalStatuses

\* The record of the updated entry is appended to the raw log and its
\* insert into storage has begun.
RecordWritten(id) ==
  /\ callsRaw' = Append(callsRaw, CallRecord(id, activeCalls'[id]))
  /\ callSaving' = callSaving \cup {[id |-> id, call |-> activeCalls'[id]]}

\* Every row of storage is a record of the raw log: raw log first.
RawBeforeStorage ==
  \A r \in callsT : \E i \in 1..Len(callsRaw) : callsRaw[i] = r

FoundEntry == lastLookup.id # NULL /\ lastLookup.entry # NoEntry

CachedNames(entry) ==
  [savedName |-> entry.savedName, pushname |-> entry.pushname]

\* C9 as stated, t0 being the time of the lookup that filled the cache: a
\* lookup at t0 + TTL - 1 returns the cached value without invoking
\* getContactById, and a lookup at t0 + TTL + 1 invokes getContactById.
C9_AsStated ==
  FoundEntry =>
    /\ lastLookup.at = lastLookup.entryLookupAt + CONTACT_CACHE_TTL - 1 =>
         /\ lastLookup.how = "hit"
         /\ lastLookup.returned = CachedNames(lastLookup.entry)
    /\ lastLookup.at = lastLookup.entryLookupAt + CONTACT_CACHE_TTL + 1 =>
         lastLookup.how = "invoked"

\* C9, t0 being the time at which the successful resolution was stored (the
\* entry's timestamp): a successful resolution populates the cache; a lookup
\* of that identity up to t0 + TTL - 1 returns the cached value without
\* invoking getContactById; a lookup at t0 + TTL + 1 or later invokes
\* getContactById again.
C9_CacheTtl ==
  /\ lastResolution.ok =>
       /\ contactCache[lastResolution.id] # NoEntry
       /\ contactCache[lastResolution.id].timestamp >= lastResolution.at
  /\ FoundEntry =>
       /\ lastLookup.at <= lastLookup.entry.timestamp + CONTACT_CACHE_TTL - 1 =>
            /\ lastLookup.how = "hit"
            /\ lastLookup.returned = CachedNames(lastLookup.entry)
       /\ lastLookup.at >= lastLookup.entry.timestamp + CONTACT_CACHE_TTL + 1 =>
            lastLookup.how = "invoked"

\* A lookup exactly TTL + 1 after the entry was stored invokes the resolution,
\* the entry having served a lookup before.
C9_Witness ==
  /\ FoundEntry
  /\ lastLookup.at = lastLookup.entry.timestamp + CONTACT_CACHE_TTL + 1
  /\ lastLookup.how = "invoked"
  /\ lastLookup.entry.savedName = "Alice"

\* The step in which an awaited getContactById rejects.
LookupFailedStep ==
  /\ Cardinality(lookups') < Cardinality(lookups)
  /\ ~lastResolution'.ok

\* A call of resolveContactName whose latest settled resolution was a
\* failure for the same identity.
LookupAfterFailureStep ==
  /\ lastLookup' # lastLookup \/ Cardinality(lookups') > Cardinality(lookups)
  /\ lastResolution.id # NULL
  /\ ~lastResolution.ok
  /\ lastLookup'.id = lastResolution.id

\* C23 as stated: a failed resolution returns nulls and leaves the cache
\* unchanged, and the next lookup of the same identity calls getContactById
\* again.
C23_AsStated ==
  /\ [][ LookupFailedStep =>
           /\ contactCache' = contactCache
           /\ lastResolution'.returned = NullNames ]_vars
  /\ [][ LookupAfterFailureStep => lastLookup'.how = "invoked" ]_vars

\* C23: a failed resolution returns nulls and leaves the cache unchanged;
\* the next lookup of the same identity calls getContactById again unless
\* another resolution of that identity, started before the failure, has
\* succeeded and stored an entry since the failed one began.
C23_FailureNotCached ==
  /\ [][ LookupFailedStep =>
           /\ contactCache' = contactCache
           /\ lastResolution'.returned = NullNames ]_vars
  /\ [][ ( /\ LookupAfterFailureStep
           /\ \/ contactCache[lastResolution.id] = NoEntry
              \/ contactCache[lastResolution.id].timestamp
                   < lastResolution.started )
         => lastLookup'.how = "invoked" ]_vars

\* A resolution failed with nothing cached, and a later lookup of the same
\* identity has called getContactById again.
C23_Witness ==
  /\ lastResolution.id # NULL
  /\ ~lastResolution.ok
  /\ contactCache[lastResolution.id] = NoEntry
  /\ lastLookup.id = lastResolution.id
  /\ lastLookup.at > lastResolution.at
  /\ lastLookup.how = "invoked"

(***************************************************************************)
(* Claims about the catch-up scheduler                                     *)
(***************************************************************************)
\* The step in which an awaited schedulePrefill() returns normally.
PrefillSuccessStep ==
  prefillRunning' = prefillRunning - 1 /\ prefillTimers' = prefillTimers

\* C10: the retry delays computed by consecutive prefill failures (six of
\* them and more) are non-decreasing and never exceed 60000 ms; the step in
\* which prefill then succeeds calls scheduleBackfill exactly once, starting
\* one backfill execution, and no other step calls it on prefill's behalf.
C10_PrefillBackoffThenBackfill ==
  /\ [](\A i \in 1..Len(prefillDelays) :
          /\ prefillDelays[i] <= 60000
          /\ i > 1 => prefillDelays[i - 1] <= prefillDelays[i])
  /\ [][PrefillSuccessStep =>
          /\ backfillTriggers' = backfillTriggers + 1
          /\ backfillRunning' = backfillRunning + 1
          /\ prefillComplete']_vars
  /\ [][backfillTriggers' # backfillTriggers => PrefillSuccessStep]_vars

\* Six consecutive failures, then a success that has triggered backfill once.
C10_Witness ==
  /\ Len(prefillDelays) = 6
  /\ prefillDelays[1] = 5000
  /\ prefillDelays[6] = 10000
  /\ prefillComplete
  /\ prefillAttempts = 0
  /\ backfillTriggers = 1

\* C17: at most one execution of schedulePrefill() is in progress at any
\* time, and only while prefillInProgress is set, whatever the order of
\* ready events and prefill retry timers.
C17_PrefillSingleFlight ==
  /\ prefillRunning <= 1
  /\ prefillRunning = 1 => prefillInProgress

\* The only prefill execution ever started is still running after the second
\* client's ready handler has called schedulePrefillWithRetry().
C17_Witness ==
  /\ prefillRunning = 1
  /\ prefillAttempts = 1
  /\ ~prefillComplete
  /\ prefillDelays = <<>>
  /\ clients[2].phase = "ready"
  /\ readyCooldown = 0

\* C18 as stated: at most one execution of scheduleBackfill() is in progress
\* at any time.
C18_BackfillSingleFlight == backfillRunning <= 1

\* The step in which an execution of scheduleBackfill() ends.
BackfillEndStep == backfillRunning' = backfillRunning - 1

\* C32: every failed backfill attempt sets one timer whose delay is 10000 ms
\* whatever the number of earlier failures, and every such timer fires and
\* starts a new execution of the whole phase; the attempt that succeeds sets
\* backfillComplete and no timer, and nothing else sets backfillComplete.
C32_BackfillFixedRetry ==
  /\ [](\A i \in 1..Len(backfillDelays) : backfillDelays[i] = 10000)
  /\ [][BackfillEndStep =>
          \/ /\ backfillTimers' = backfillTimers + 1
             /\ Len(backfillDelays') = Len(backfillDelays) + 1
             /\ backfillComplete' = backfillComplete
          \/ /\ backfillComplete'
             /\ UNCHANGED <<backfillTimers, backfillDelays>>]_vars
  /\ [][backfillTimers' = backfillTimers - 1 =>
          backfillRunning' = backfillRunning + 1]_vars
  /\ [][backfillComplete' # backfillComplete =>
          BackfillEndStep /\ backfillComplete']_vars
  /\ [](backfillTimers > 0 => <>(backfillTimers = 0))

\* Backfill failed twice and then succeeded: both delays were 10000 ms and
\* no timer is left.
C32_Witness ==
  /\ backfillDelays = <<10000, 10000>>
  /\ backfillComplete
  /\ backfillTimers = 0
  /\ backfillRunning = 0

\* The step in which an awaited schedulePrefill() throws.
PrefillFailStep ==
  prefillRunning' = prefillRunning - 1 /\ prefillTimers' = prefillTimers + 1

\* C33 as stated: the delay after the n-th consecutive prefill failure is
\* min(5000 * 2^(n-1), 60000).
C33_AsStated ==
  \A n \in 1..Len(prefillDelays) :
    prefillDelays[n] = Min(5000 * Pow2(Min(n - 1, 4)), 60000)

\* C33, amended: the delay after the n-th consecutive prefill failure is
\* min(5000 * 2^floor(n/5), 60000); the counter it is computed from is
\* reset to 0 by the failure that finds it above 100 and by no other
\* failure, and it is independent of the connection's retry counter: no
\* step changes both and a prefill failure leaves the retry counter alone.
C33_PrefillBackoff ==
  /\ [](\A n \in 1..Len(prefillDelays) :
          prefillDelays[n] = Min(5000 * Pow2(Min(n \div 5, 4)), 60000))
  /\ [][PrefillFailStep =>
          /\ prefillAttempts' = (IF prefillAttempts > 100 THEN 0
                                 ELSE prefillAttempts)
          /\ Len(prefillDelays') = prefillAttempts
          /\ retryCount' = retryCount]_vars
  /\ [][retryCount' # retryCount => prefillAttempts' = prefillAttempts]_vars

\* 101 consecutive failures: the last delay is the cap and the counter has
\* been reset while the connection's retry counter has moved.
C33_Witness ==
  /\ Len(prefillDelays) = 101
  /\ prefillDelays[5] = 10000
  /\ prefillDelays[101] = 60000
  /\ prefillAttempts = 0
  /\ ~prefillComplete
  /\ retryCount > 0

\* C35 as stated: the periodic refresh runs once per period for as long as
\* the process runs, whether or not prefill or backfill have completed: once
\* the client has been ready, and until the process exits, a timer for the
\* next run of the refresh is pending.
C35_RefreshScheduled ==
  (everConnected /\ proc = "running") => RefreshTimersPending > 0

\* C38 as stated: prefillInProgress is set only while an execution of
\* schedulePrefill() is running, so an attempt is never skipped as already
\* in progress when none is running.
C38_FlagOnlyWhileRunning == prefillInProgress => prefillRunning > 0

\* C40: in every reachable state backfillComplete implies prefillComplete,
\* liveListening implies indexesReady and indexesReady implies
\* connectionReady; and no step takes one of the five flags from true to
\* false.
C40_ReadinessFlags ==
  /\ [](backfillComplete => prefillComplete)
  /\ [](liveListening => indexesReady)
  /\ [](indexesReady => connectionReady)
  /\ [][ /\ connectionReady => connectionReady'
         /\ indexesReady => indexesReady'
         /\ liveListening => liveListening'
         /\ prefillComplete => prefillComplete'
         /\ backfillComplete => backfillComplete' ]_vars

\* All five flags are set and the connection has since been lost: the
\* flags have kept their values.
C40_Witness ==
  /\ connectionReady /\ indexesReady /\ liveListening
  /\ prefillComplete /\ backfillComplete
  /\ state = "reconnecting"
  /\ clients[1].phase = "lost"

(***************************************************************************)
(* Claims about live capture                                               *)
(***************************************************************************)
\* C11 as stated: no live message received while the state is connected is
\* dropped: each one is appended to the raw log (or is still on its way
\* there), whether or not prefill or backfill have completed.
C11_NoLiveEventDropped ==
  \A d \in droppedLive : ~d.connected

=============================================================================
